---- MODULE Spec2Model ----
(***************************************************************************)
(* GitHub-to-Telegram webhook bridge: the request handler (fetch), the     *)
(* signature verifier, the message formatter and the Telegram sender, in   *)
(* the two versions of the engine the repository holds:                    *)
(*   version 1 = src/worker.js, version 2 = the worker in src/README.md.   *)
(* Strings are TLA+ strings (sequences of characters); JavaScript values   *)
(* are tagged records.                                                     *)
(***************************************************************************)
EXTENDS Integers, Sequences, FiniteSets, TLC

VARIABLES
    version,        \* 1: src/worker.js, 2: the worker of src/README.md
    env,            \* the worker's environment bindings
    req,            \* the request: method, the three headers, the body text
    pc,             \* where the handler (or the verifier) stands
    resp,           \* status of the Response returned, 0 while there is none
    escaped,        \* an exception left fetch uncaught
    sig,            \* verifyGitHubSignature: signature (the header after "sha256=")
    keyImported,    \* crypto.subtle.importKey was called and resolved
    digestComputed, \* crypto.subtle.sign was called and resolved
    mac,            \* the bytes crypto.subtle.sign resolved to
    verified,       \* outcome of verifyGitHubSignature: none, true, false, threw
    cryptoFault,    \* a crypto.subtle call rejected
    parsed,         \* JSON.parse was called
    payload,        \* the decoded body
    fmt,            \* outcome of the formatMessage call: none, returned, threw
    message,        \* fetch's message
    msgSource,      \* none, formatter or fallback
    sendCalls,      \* calls of sendTelegramMessage
    tgPc,           \* where sendTelegramMessage stands
    posts,          \* POSTs made to the Telegram endpoint
    tgResp,         \* how the POST settled: none, ok, not_ok, rejected
    senderThrew,    \* sendTelegramMessage's promise rejected
    logged,         \* the console messages written, as tags
    calls           \* the invocations of fetch that run side by side, each with its locals

vars == <<version, env, req, pc, resp, escaped, sig, keyImported, digestComputed,
          mac, verified, cryptoFault, parsed, payload, fmt, message, msgSource, sendCalls,
          tgPc, posts, tgResp, senderThrew, logged, calls>>

(***************************************************************************)
(* Characters, code units and bytes                                        *)
(***************************************************************************)

\* The backquote. A TLA+ string cannot hold that character, so "^" stands for it
\* throughout (in templates, in the reserved set and in payload text); the model
\* has no caret of its own.
BQ == "^"

\* The printable ASCII characters in code order, from " " (32) to "~" (126); the
\* backquote (96) is written BQ, and the caret's place (94) holds a second "]".
Printable == " !\"#$%&'()*+,-./0123456789:;<=>?@ABCDEFGHIJKLMNOPQRSTUVWXYZ[\\]]_^abcdefghijklmnopqrstuvwxyz{|}~"

\* The i-th character of s, as a one-character string.
Ch(s, i) == SubSeq(s, i, i)

\* The least element of a non-empty set of integers.
Least(S) == CHOOSE x \in S : \A y \in S : x <= y

RECURSIVE FirstFrom(_, _, _)
\* 1-based position of the first occurrence of the character c in s at or after
\* from, 0 when absent (s is scanned sixteen characters at a time).
FirstFrom(c, s, from) ==
    IF from > Len(s) THEN 0
    ELSE LET hi == IF from + 15 < Len(s) THEN from + 15 ELSE Len(s)
             at == {i \in from..hi : Ch(s, i) = c}
         IN IF at # {} THEN Least(at) ELSE FirstFrom(c, s, hi + 1)

\* 1-based position of the first occurrence of the character c in s, 0 when absent.
IndexOf(c, s) == FirstFrom(c, s, 1)

\* Code units of the printable characters.
CodeOf == [c \in {Ch(Printable, i) : i \in 1..Len(Printable)} |-> IndexOf(c, Printable) + 31]

\* The code unit of a one-character string (String.prototype.charCodeAt).
\* The letter e with an acute accent (U+00E9), the one character outside ASCII
\* in the model's texts. A state of the model holds ASCII only, so the form feed
\* stands for it; the model has no form feed of its own.
EAcute == "\f"

CharCode(c) ==
    IF c = "\n" THEN 10
    ELSE IF c = "\t" THEN 9
    ELSE IF c = EAcute THEN 233
    ELSE CodeOf[c]

\* TextEncoder.encode of one code unit: its UTF-8 bytes.
EncodeChar(c) ==
    LET u == CharCode(c)
    IN IF u < 128 THEN <<u>> ELSE <<192 + (u \div 64), 128 + (u % 64)>>

RECURSIVE TextEncode(_)
\* TextEncoder.encode: the UTF-8 bytes of a string (computed by halves).
TextEncode(s) ==
    IF s = "" THEN <<>>
    ELSE IF Len(s) = 1 THEN EncodeChar(s)
    ELSE LET h == Len(s) \div 2
         IN TextEncode(SubSeq(s, 1, h)) \o TextEncode(SubSeq(s, h + 1, Len(s)))

RECURSIVE BitXor(_, _)
\* a ^ b on non-negative integers.
BitXor(a, b) ==
    IF a = 0 THEN b
    ELSE IF b = 0 THEN a
    ELSE 2 * BitXor(a \div 2, b \div 2) + (IF (a % 2) = (b % 2) THEN 0 ELSE 1)

RECURSIVE BitOr(_, _)
\* a | b on non-negative integers.
BitOr(a, b) ==
    IF a = 0 THEN b
    ELSE IF b = 0 THEN a
    ELSE 2 * BitOr(a \div 2, b \div 2) + (IF (a % 2) = 1 \/ (b % 2) = 1 THEN 1 ELSE 0)

HexDigits == "0123456789abcdef"

\* b.toString(16).padStart(2, "0") for a byte b.
ByteToHex(b) == Ch(HexDigits, (b \div 16) + 1) \o Ch(HexDigits, (b % 16) + 1)

RECURSIVE HexOf(_)
\* Array.from(bytes).map(b => b.toString(16).padStart(2, "0")).join("")
HexOf(bytes) ==
    IF Len(bytes) = 0 THEN ""
    ELSE IF Len(bytes) = 1 THEN ByteToHex(bytes[1])
    ELSE LET h == Len(bytes) \div 2
         IN HexOf(SubSeq(bytes, 1, h)) \o HexOf(SubSeq(bytes, h + 1, Len(bytes)))

RECURSIVE DigitsOf(_)
DigitsOf(n) ==
    IF n < 10 THEN Ch(HexDigits, n + 1)
    ELSE DigitsOf(n \div 10) \o Ch(HexDigits, (n % 10) + 1)

\* Number.prototype.toString() / String(n) for an integer.
NumToString(n) == IF n < 0 THEN "-" \o DigitsOf(0 - n) ELSE DigitsOf(n)

\* String.prototype.startsWith
StartsWith(s, p) == Len(s) >= Len(p) /\ SubSeq(s, 1, Len(p)) = p

\* String.prototype.substring(from) and substring(0, n)
SubstringFrom(s, from) == IF from >= Len(s) THEN "" ELSE SubSeq(s, from + 1, Len(s))
SubstringTo(s, n) == IF n >= Len(s) THEN s ELSE SubSeq(s, 1, n)

\* String.prototype.indexOf(p) + 1: 1-based position of the first occurrence, 0 if none.
FindSub(s, p) ==
    LET at == {i \in 1..(Len(s) - Len(p) + 1) : SubSeq(s, i, i + Len(p) - 1) = p}
    IN IF at = {} THEN 0 ELSE Least(at)

\* String.prototype.includes
Includes(s, p) == FindSub(s, p) > 0

\* String.prototype.replace(p, r) with a string pattern: the first occurrence only.
ReplaceFirst(s, p, r) ==
    LET i == FindSub(s, p)
    IN IF i = 0 THEN s
       ELSE SubSeq(s, 1, i - 1) \o r \o SubstringFrom(s, i - 1 + Len(p))

\* s.split("\n")[0]
FirstLine(s) ==
    LET i == IndexOf("\n", s) IN IF i = 0 THEN s ELSE SubSeq(s, 1, i - 1)

Whitespace == {" ", "\n", "\t"}

RECURSIVE TrimStart(_)
\* The string without its leading whitespace.
TrimStart(s) == IF s # "" /\ Head(s) \in Whitespace THEN TrimStart(Tail(s)) ELSE s

RECURSIVE TrimEnd(_)
\* The string without its trailing whitespace.
TrimEnd(s) ==
    IF s # "" /\ Ch(s, Len(s)) \in Whitespace THEN TrimEnd(SubSeq(s, 1, Len(s) - 1)) ELSE s

\* String.prototype.trim
Trim(s) == TrimEnd(TrimStart(s))

(***************************************************************************)
(* JavaScript values                                                       *)
(***************************************************************************)

Undefined == [t |-> "undefined"]
Null == [t |-> "null"]
Bool(b) == [t |-> "boolean", b |-> b]
Num(n) == [t |-> "number", n |-> n]
Str(s) == [t |-> "string", s |-> s]
Arr(a) == [t |-> "array", a |-> a]
Obj(o) == [t |-> "object", o |-> o]

IsNullish(v) == v.t \in {"undefined", "null"}
IsStr(v) == v.t = "string"

\* ToBoolean: what `!v`, `v || d` and `if (v)` test.
Truthy(v) ==
    CASE v.t = "undefined" -> FALSE
      [] v.t = "null" -> FALSE
      [] v.t = "boolean" -> v.b
      [] v.t = "number" -> v.n # 0
      [] v.t = "string" -> v.s # ""
      [] OTHER -> TRUE

\* a || b
OrElse(a, b) == IF Truthy(a) THEN a ELSE b

\* v.k on a value that is not null or undefined (reading those throws a TypeError).
\* Only own properties of parsed JSON objects are modelled, and `length`.
Prop(v, k) ==
    CASE v.t = "object" -> IF k \in DOMAIN v.o THEN v.o[k] ELSE Undefined
      [] v.t = "string" /\ k = "length" -> Num(Len(v.s))
      [] v.t = "array" /\ k = "length" -> Num(Len(v.a))
      [] OTHER -> Undefined

\* v?.k
OptProp(v, k) == IF IsNullish(v) THEN Undefined ELSE Prop(v, k)

\* `v.k` throws exactly when v is null or undefined.
PropThrows(v) == IsNullish(v)

\* v.m(...) for a String method m throws unless v is a string.
StrMethodThrows(v) == ~IsStr(v)

RECURSIVE StringOf(_)
RECURSIVE JoinArr(_)
\* Template-literal interpolation `${v}` / String(v).
StringOf(v) ==
    CASE v.t = "undefined" -> "undefined"
      [] v.t = "null" -> "null"
      [] v.t = "boolean" -> IF v.b THEN "true" ELSE "false"
      [] v.t = "number" -> NumToString(v.n)
      [] v.t = "string" -> v.s
      [] v.t = "array" -> JoinArr(v.a)
      [] OTHER -> "[object Object]"
\* Array.prototype.join(","): null and undefined elements render as "".
JoinArr(a) ==
    IF a = <<>> THEN ""
    ELSE (IF IsNullish(Head(a)) THEN "" ELSE StringOf(Head(a)))
         \o (IF Len(a) > 1 THEN "," \o JoinArr(Tail(a)) ELSE "")

(***************************************************************************)
(* JSON.parse, for compact JSON text: null, true, false, integers,         *)
(* strings with the escapes \" \\ \/ \n \t, arrays and objects.            *)
(***************************************************************************)

Digits == "0123456789"
ParseFail == [ok |-> FALSE, v |-> Undefined, rest |-> ""]
ParseOk(v, rest) == [ok |-> TRUE, v |-> v, rest |-> rest]

RECURSIVE ParseDigits(_, _)
\* The digits at the front of s, accumulated onto n.
ParseDigits(s, n) ==
    IF s # "" /\ IndexOf(Head(s), Digits) > 0
    THEN ParseDigits(Tail(s), 10 * n + (IndexOf(Head(s), Digits) - 1))
    ELSE [n |-> n, rest |-> s]

\* A JSON number at the front of s: an integer; fractions and exponents are
\* outside the model and refused.
ParseNumber(s) ==
    LET Signed(neg, t) ==
            LET Valued(d) ==
                    IF d.rest # "" /\ Head(d.rest) \in {".", "e", "E"} THEN ParseFail
                    ELSE ParseOk(Num(IF neg THEN 0 - d.n ELSE d.n), d.rest)
            IN IF t = "" \/ IndexOf(Head(t), Digits) = 0 THEN ParseFail
               ELSE IF Len(t) >= 2 /\ Head(t) = "0" /\ IndexOf(Head(Tail(t)), Digits) > 0
               THEN ParseFail
               ELSE Valued(ParseDigits(t, 0))
    IN IF s # "" /\ Head(s) = "-" THEN Signed(TRUE, Tail(s)) ELSE Signed(FALSE, s)

RECURSIVE BackslashesBefore(_, _)
\* The number of consecutive backslashes that end just before position q of s.
BackslashesBefore(s, q) ==
    IF q > 1 /\ Ch(s, q - 1) = "\\" THEN 1 + BackslashesBefore(s, q - 1) ELSE 0

RECURSIVE ClosingQuote(_, _)
\* Position of the quote that closes a JSON string (s follows the opening quote):
\* the first quote at or after from that an even number of backslashes precedes;
\* 0 when there is none.
ClosingQuote(s, from) ==
    LET At(q) == IF q = 0 \/ BackslashesBefore(s, q) % 2 = 0 THEN q ELSE ClosingQuote(s, q + 1)
    IN At(FirstFrom("\"", s, from))

RECURSIVE Unescape(_)
\* The text of a JSON string body: [ok, s]. Escapes other than \" \\ \/ \n \t
\* are outside the model and refused.
Unescape(raw) ==
    LET At(i) ==
            LET Escape(e) ==
                    LET Joined(r) ==
                            IF ~r.ok THEN r
                            ELSE [ok |-> TRUE,
                                  s |-> SubSeq(raw, 1, i - 1)
                                        \o (CASE e = "n" -> "\n" [] e = "t" -> "\t" [] OTHER -> e)
                                        \o r.s]
                    IN IF e \notin {"n", "t", "\"", "\\", "/"} THEN [ok |-> FALSE, s |-> ""]
                       ELSE Joined(Unescape(SubstringFrom(raw, i + 1)))
            IN IF i = 0 THEN [ok |-> TRUE, s |-> raw]
               ELSE IF i = Len(raw) THEN [ok |-> FALSE, s |-> ""]
               ELSE Escape(Ch(raw, i + 1))
    IN At(IndexOf("\\", raw))

\* A JSON string, s following its opening quote. Raw control characters are refused.
ParseChars(s) ==
    LET Closed(q) ==
            LET Decoded(u) ==
                    IF ~u.ok THEN ParseFail ELSE ParseOk(Str(u.s), SubstringFrom(s, q))
            IN IF q = 0 THEN ParseFail
               ELSE IF FirstFrom("\n", s, 1) \in 1..q \/ FirstFrom("\t", s, 1) \in 1..q THEN ParseFail
               ELSE Decoded(Unescape(SubSeq(s, 1, q - 1)))
    IN Closed(ClosingQuote(s, 1))

\* A JSON string, number or literal at the front of s.
ParseScalar(s) ==
    IF StartsWith(s, "null") THEN ParseOk(Null, SubstringFrom(s, 4))
    ELSE IF StartsWith(s, "true") THEN ParseOk(Bool(TRUE), SubstringFrom(s, 4))
    ELSE IF StartsWith(s, "false") THEN ParseOk(Bool(FALSE), SubstringFrom(s, 5))
    ELSE IF s # "" /\ Head(s) = "\"" THEN ParseChars(Tail(s))
    ELSE ParseNumber(s)

\* A member's key and its colon: string ":"
ParseKey(s0) ==
    LET Colon(k, c) == IF k.ok /\ c # "" /\ Head(c) = ":" THEN ParseOk(k.v, Tail(c)) ELSE ParseFail
        Quoted(k) == Colon(k, TrimStart(k.rest))
        At(s) == IF s # "" /\ Head(s) = "\"" THEN Quoted(ParseChars(Tail(s))) ELSE ParseFail
    IN At(TrimStart(s0))

\* The containers that are open while the text is read, innermost last: an
\* array with its elements so far, or an object with its members so far and
\* the key whose value is being read.
ArrayFrame(a) == [t |-> "array", a |-> a, o |-> <<>>, k |-> ""]
ObjectFrame(o, k) == [t |-> "object", a |-> <<>>, o |-> o, k |-> k]

RECURSIVE ParseValue(_, _)
\* Reads the text from the place of a value to the end of the first value that
\* is complete there, a scalar or an empty container, opening the containers
\* on the way: [ok, v, rest, stack].
ParseValue(s0, stack) ==
    LET Done(r) == [ok |-> r.ok, v |-> r.v, rest |-> r.rest, stack |-> stack]
        Member(key) ==
            IF ~key.ok THEN Done(ParseFail)
            ELSE ParseValue(key.rest, Append(stack, ObjectFrame(<<>>, key.v.s)))
        Open(s, t) ==
            IF Head(s) = "[" THEN
                (IF t # "" /\ Head(t) = "]" THEN Done(ParseOk(Arr(<<>>), Tail(t)))
                 ELSE ParseValue(t, Append(stack, ArrayFrame(<<>>))))
            ELSE
                (IF t # "" /\ Head(t) = "}" THEN Done(ParseOk(Obj(<<>>), Tail(t)))
                 ELSE Member(ParseKey(t)))
        At(s) ==
            IF s = "" THEN Done(ParseFail)
            ELSE IF Head(s) \in {"[", "{"} THEN Open(s, TrimStart(Tail(s)))
            ELSE Done(ParseScalar(s))
    IN At(TrimStart(s0))

RECURSIVE ParseRest(_, _, _)
\* The value v is complete and s0 follows it: v is the whole text's value when
\* no container is open; otherwise it joins the innermost one, which a "]" or
\* "}" completes and a "," continues. A repeated key keeps its last value.
ParseRest(s0, stack, v) ==
    LET Continue(next) ==
            IF ~next.ok THEN ParseFail ELSE ParseRest(next.rest, next.stack, next.v)
        InArray(s, below, a) ==
            IF Head(s) = "]" THEN ParseRest(Tail(s), below, Arr(a))
            ELSE IF Head(s) = "," THEN Continue(ParseValue(Tail(s), Append(below, ArrayFrame(a))))
            ELSE ParseFail
        NextMember(key, below, o) ==
            IF ~key.ok THEN ParseFail
            ELSE Continue(ParseValue(key.rest, Append(below, ObjectFrame(o, key.v.s))))
        InObject(s, below, o) ==
            IF Head(s) = "}" THEN ParseRest(Tail(s), below, Obj(o))
            ELSE IF Head(s) = "," THEN NextMember(ParseKey(Tail(s)), below, o)
            ELSE ParseFail
        Join(s, top, below) ==
            IF top.t = "array" THEN InArray(s, below, Append(top.a, v))
            ELSE InObject(s, below, (top.k :> v) @@ top.o)
        At(s) ==
            IF stack = <<>> THEN (IF s = "" THEN ParseOk(v, "") ELSE ParseFail)
            ELSE IF s = "" THEN ParseFail
            ELSE Join(s, stack[Len(stack)], SubSeq(stack, 1, Len(stack) - 1))
    IN At(TrimStart(s0))

\* JSON.parse(text): ok = FALSE models the SyntaxError it throws.
JSONParse(text) ==
    LET Whole(r) == [ok |-> r.ok, v |-> r.v]
        From(first) ==
            IF ~first.ok THEN [ok |-> FALSE, v |-> Undefined]
            ELSE Whole(ParseRest(first.rest, first.stack, first.v))
    IN From(ParseValue(text, <<>>))

(***************************************************************************)
(* Number coercion, as the relational operators apply it                   *)
(***************************************************************************)

NaN == [nan |-> TRUE, n |-> 0]
Number(n) == [nan |-> FALSE, n |-> n]

\* ToNumber of a string: "" is 0, an optionally signed run of digits its value,
\* anything else NaN.
StringToNumber(s0) ==
    LET s == Trim(s0)
        neg == s # "" /\ Head(s) = "-"
        t == IF neg THEN Tail(s) ELSE s
        d == ParseDigits(t, 0)
    IN IF s = "" THEN Number(0)
       ELSE IF t = "" \/ d.rest # "" THEN NaN
       ELSE Number(IF neg THEN 0 - d.n ELSE d.n)

\* ToNumber(v)
ToNumber(v) ==
    CASE v.t = "undefined" -> NaN
      [] v.t = "null" -> Number(0)
      [] v.t = "boolean" -> Number(IF v.b THEN 1 ELSE 0)
      [] v.t = "number" -> Number(v.n)
      [] OTHER -> StringToNumber(StringOf(v))

\* v > n and v < n for an integer n
GreaterThan(v, n) == LET x == ToNumber(v) IN ~x.nan /\ x.n > n
LessThan(v, n) == LET x == ToNumber(v) IN ~x.nan /\ x.n < n

\* v === "s" and v === n
IsString(v, s) == v.t = "string" /\ v.s = s
IsNumber(v, n) == v.t = "number" /\ v.n = n

(***************************************************************************)
(* escapeMarkdownV2                                                        *)
(***************************************************************************)

\* The characters of the class [_*\[\]()~`>#+\-=|{}.!]
Reserved == {"_", "*", "[", "]", "(", ")", "~", BQ, ">", "#", "+", "-", "=", "|", "{", "}", ".", "!"}

RECURSIVE EscapeReserved(_)
\* text.replace(/([_*\[\]()~`>#+\-=|{}.!])/g, "\\$1"): each character of the class
\* gets a backslash before it (computed by halves).
EscapeReserved(s) ==
    IF s = "" THEN ""
    ELSE IF Len(s) = 1 THEN (IF s \in Reserved THEN "\\" \o s ELSE s)
    ELSE LET h == Len(s) \div 2
         IN EscapeReserved(SubSeq(s, 1, h)) \o EscapeReserved(SubSeq(s, h + 1, Len(s)))

RECURSIVE EscapeBackslashes(_)
\* text.replace(/\\/g, "\\\\"): each backslash is doubled (computed by halves).
EscapeBackslashes(s) ==
    IF s = "" THEN ""
    ELSE IF Len(s) = 1 THEN (IF s = "\\" THEN "\\\\" ELSE s)
    ELSE LET h == Len(s) \div 2
         IN EscapeBackslashes(SubSeq(s, 1, h)) \o EscapeBackslashes(SubSeq(s, h + 1, Len(s)))

\* worker.js: the reserved class only.
EscapeText1(s) == EscapeReserved(s)

\* README.md: backslashes first, then the reserved class.
EscapeText2(s) == EscapeReserved(EscapeBackslashes(s))

\* escapeMarkdownV2(text) on a string, in the running version.
EscapeText(s) == IF version = 1 THEN EscapeText1(s) ELSE EscapeText2(s)

\* escapeMarkdownV2(text) throws (text.replace is not a function) when text is
\* truthy and not a string.
escapeThrows(text) == Truthy(text) /\ ~IsStr(text)

\* escapeMarkdownV2(text): "" for a falsy text, the escaped string otherwise.
escapeMarkdownV2(text) == IF ~Truthy(text) THEN "" ELSE EscapeText(text.s)

(***************************************************************************)
(* The signature verifier                                                  *)
(***************************************************************************)

\* Bytes of an HMAC-SHA256 tag.
MacLen == 32

RECURSIVE WeightedSum(_, _, _)
\* The sum of (j * k + 1) * b[j] over the bytes b, j counted from the given start
\* (computed by halves).
WeightedSum(b, j, k) ==
    IF Len(b) = 0 THEN 0
    ELSE IF Len(b) = 1 THEN (j * k + 1) * b[1]
    ELSE LET h == Len(b) \div 2
         IN WeightedSum(SubSeq(b, 1, h), j, k) + WeightedSum(SubSeq(b, h + 1, Len(b)), j + h, k)

RECURSIVE TagBytes(_, _, _, _, _, _, _)
\* Bytes lo..hi of the tag, from the checksums of the data and of the key.
TagBytes(lo, hi, a, b, c, d, e) ==
    IF lo = hi
    THEN <<(a * (2 * lo + 1) + b * (lo + 3) + c * (lo * lo + 7) + d * (5 * lo + 1) + 17 * lo + e) % 256>>
    ELSE LET h == (lo + hi) \div 2
         IN TagBytes(lo, h, a, b, c, d, e) \o TagBytes(h + 1, hi, a, b, c, d, e)

\* crypto.subtle.sign("HMAC", key, data): the tag is a deterministic function of
\* the key bytes and the data bytes. SHA-256 itself is not computed; a keyed
\* checksum stands for it, MacLen bytes long.
HmacSign(keyBytes, dataBytes) ==
    TagBytes(1, MacLen, WeightedSum(dataBytes, 1, 0), WeightedSum(dataBytes, 1, 1),
             WeightedSum(keyBytes, 1, 0), WeightedSum(keyBytes, 1, 1),
             Len(dataBytes) * 29 + Len(keyBytes) * 131)

RECURSIVE XorAccumulate(_, _, _, _)
\* for (let i = 0; i < encodedA.length; i++) result |= encodedA[i] ^ encodedB[i];
\* a read past the end of encodedB is undefined, which ^ takes as 0.
\* i is 1-based here; steps counts the loop's iterations. (The test result >= 0
\* always holds: it makes TLC compute the accumulator at each iteration.)
XorAccumulate(encodedA, encodedB, i, result) ==
    IF result >= 0 /\ i > Len(encodedA) THEN [result |-> result, steps |-> i - 1]
    ELSE XorAccumulate(encodedA, encodedB, i + 1,
            BitOr(result, BitXor(encodedA[i], IF i <= Len(encodedB) THEN encodedB[i] ELSE 0)))

RECURSIVE FirstMismatch(_, _, _)
\* The first index at or after i where the bytes differ, one past the end when none
FirstMismatch(encodedA, encodedB, i) ==
    IF i > Len(encodedA) THEN i
    ELSE IF encodedA[i] # (IF i <= Len(encodedB) THEN encodedB[i] ELSE 0) THEN i
    ELSE FirstMismatch(encodedA, encodedB, i + 1)

\* A slip in the loop: it returns at the first pair of bytes that differ.
timingSafeEqualEarly(a, b) ==
    IF Len(a) # Len(b) THEN [equal |-> FALSE, steps |-> 0]
    ELSE LET at == FirstMismatch(TextEncode(a), TextEncode(b), 1)
         IN IF at > Len(TextEncode(a)) THEN [equal |-> TRUE, steps |-> at - 1]
            ELSE [equal |-> FALSE, steps |-> at]

\* A slip in the loop bound: the last byte is not compared.
timingSafeEqualButLast(a, b) ==
    IF Len(a) # Len(b) THEN [equal |-> FALSE, steps |-> 0]
    ELSE LET r == XorAccumulate(SubSeq(TextEncode(a), 1, Len(TextEncode(a)) - 1), TextEncode(b), 1, 0)
         IN [equal |-> r.result = 0, steps |-> r.steps]

\* A slip in the guard: the lengths are not compared first.
timingSafeEqualAnyLength(a, b) ==
    LET r == XorAccumulate(TextEncode(a), TextEncode(b), 1, 0)
    IN [equal |-> r.result = 0, steps |-> r.steps]

\* timingSafeEqual(a, b): [equal, steps], steps the number of loop iterations.
timingSafeEqual(a, b) ==
    IF Len(a) # Len(b) THEN [equal |-> FALSE, steps |-> 0]
    ELSE LET r == XorAccumulate(TextEncode(a), TextEncode(b), 1, 0)
         IN [equal |-> r.result = 0, steps |-> r.steps]

\* verifyGitHubSignature, first step: a header that is empty or does not start
\* with "sha256=" returns false at once.
PrefixOk(signatureHeader) == Truthy(signatureHeader) /\ StartsWith(signatureHeader.s, "sha256=")

\* signatureHeader.substring(7)
SignatureOf(signatureHeader) == SubstringFrom(signatureHeader.s, 7)

\* calculatedSignature: the tag in lowercase hex.
CalculatedSignature(macBytes) == HexOf(macBytes)

(***************************************************************************)
(* formatMessage, version 1 (src/worker.js)                                *)
(* A formatter's outcome is [threw, msg]: threw says that an exception     *)
(* left it, msg is the string it returned otherwise.                       *)
(***************************************************************************)

Threw == [threw |-> TRUE, msg |-> ""]
Return(m) == [threw |-> FALSE, msg |-> m]

\* An emoji of the message templates, written as a word of unreserved characters.
Icon(name) == "@" \o name

\* a.substring(0, n) of a string value, escaped
EscapedPrefix(v, n) == escapeMarkdownV2(Str(SubstringTo(v.s, n)))

\* v.toString(), v neither null nor undefined
ToStringMethod(v) == StringOf(v)

\* repoName (worker.js:189) and senderName (worker.js:192)
RepoName1(p) ==
    OrElse(OptProp(Prop(p, "repository"), "full_name"), Str("Unknown Repo"))
SenderName1(p) ==
    OrElse(OptProp(Prop(p, "sender"), "login"), Str("Unknown User"))

\* The statements before the switch throw when payload is null or undefined, or
\* when a name is truthy and not a string.
Header1Throws(p) ==
    \/ PropThrows(p)
    \/ escapeThrows(RepoName1(p))
    \/ escapeThrows(SenderName1(p))

\* The standard header: `*Repo:* [name](url) \| *By:* [name](url)\n`
Header1(p) ==
    "*Repo:* [" \o escapeMarkdownV2(RepoName1(p)) \o "]("
    \o StringOf(OrElse(OptProp(Prop(p, "repository"), "html_url"), Str("#")))
    \o ") \\| *By:* [" \o escapeMarkdownV2(SenderName1(p)) \o "]("
    \o StringOf(OrElse(OptProp(Prop(p, "sender"), "html_url"), Str("#")))
    \o ")\\n"

\* One commit of the push list (the forEach body) throws
CommitThrows(commit) ==
    \/ PropThrows(commit)
    \/ ~IsStr(Prop(commit, "message"))
    \/ ~IsStr(Prop(commit, "id"))
    \/ PropThrows(Prop(commit, "author"))
    \/ escapeThrows(OrElse(Prop(Prop(commit, "author"), "name"),
                           Prop(Prop(commit, "author"), "username")))

\* The line the forEach body appends for one commit.
CommitLine(commit) ==
    "  \\- [" \o EscapedPrefix(Prop(commit, "id"), 7) \o "](" \o StringOf(Prop(commit, "url"))
    \o ") " \o escapeMarkdownV2(Str(FirstLine(Prop(commit, "message").s)))
    \o " \\- _"
    \o escapeMarkdownV2(OrElse(Prop(Prop(commit, "author"), "name"),
                               Prop(Prop(commit, "author"), "username")))
    \o "_\\n"

\* A slip in the bound of the slice: four commits are listed.
FirstFour(a) == SubSeq(a, 1, IF Len(a) < 4 THEN Len(a) ELSE 4)

\* commits.slice(0, 3)
FirstThree(a) == SubSeq(a, 1, IF Len(a) < 3 THEN Len(a) ELSE 3)

RECURSIVE CommitLines(_)
CommitLines(a) == IF a = <<>> THEN "" ELSE CommitLine(Head(a)) \o CommitLines(Tail(a))

\* A slip in the stripping: only the prefix of branches is removed.
BranchOfHeads(ref) == ReplaceFirst(ref, "refs/heads/", "")

\* payload.ref.replace("refs/heads/", "").replace("refs/tags/", "")
BranchOf(ref) == ReplaceFirst(ReplaceFirst(ref, "refs/heads/", ""), "refs/tags/", "")

\* case "push" (worker.js:199-239)
Push1(p, header) ==
    LET ref == Prop(p, "ref")
        commits == OrElse(Prop(p, "commits"), Arr(<<>>))
        commitCount == Prop(commits, "length")
        compareUrl == StringOf(Prop(p, "compare"))
        branch == escapeMarkdownV2(Str(BranchOf(ref.s)))
    IN IF escapeThrows(ref) \/ PropThrows(ref) \/ StrMethodThrows(ref) THEN Threw
       ELSE IF IsNumber(commitCount, 0) /\ Truthy(Prop(p, "forced")) THEN
            Return(header \o "*Force Pushed* to branch " \o BQ \o branch \o BQ
                   \o " \\(no new commits\\)\\. [Compare changes](" \o compareUrl \o ")")
       ELSE IF GreaterThan(commitCount, 0) THEN
            (IF commits.t # "array" THEN Threw
             ELSE IF \E k \in 1..Len(FirstThree(commits.a)) : CommitThrows(commits.a[k]) THEN Threw
             ELSE Return(header \o "*Pushed " \o StringOf(commitCount) \o " commit"
                         \o (IF GreaterThan(commitCount, 1) THEN "s" ELSE "")
                         \o "* to branch " \o BQ \o branch \o BQ
                         \o "\\. [Compare changes](" \o compareUrl \o ")\\n"
                         \o CommitLines(FirstThree(commits.a))
                         \o (IF GreaterThan(commitCount, 3)
                             THEN "  \\.\\.\\. and " \o NumToString(commitCount.n - 3) \o " more\\.\\n"
                             ELSE "")))
       ELSE IF Truthy(Prop(p, "deleted")) /\ StartsWith(ref.s, "refs/tags/") THEN Return("")
       ELSE Return(header \o "Pushed to " \o BQ \o escapeMarkdownV2(ref) \o BQ
                   \o " \\(no commits detected in payload, check compare link\\)\\. [Compare changes]("
                   \o compareUrl \o ")")

\* ` to ${escapeMarkdownV2(payload.assignee?.login || "someone")}`
Assignee(p) == OrElse(OptProp(Prop(p, "assignee"), "login"), Str("someone"))
\* payload.label?.name || ""
LabelName1(p) == OrElse(OptProp(Prop(p, "label"), "name"), Str(""))

\* case "pull_request" (worker.js:241-262)
PullRequest1(p, header) ==
    LET pr == Prop(p, "pull_request")
        action == escapeMarkdownV2(Prop(p, "action"))
    IN IF PropThrows(pr) \/ escapeThrows(Prop(pr, "title")) \/ escapeThrows(Prop(p, "action"))
       THEN Threw
       ELSE IF action = "assigned" /\ escapeThrows(Assignee(p)) THEN Threw
       ELSE IF action = "labeled" /\ escapeThrows(LabelName1(p)) THEN Threw
       ELSE Return(header \o "*Pull Request #" \o StringOf(Prop(pr, "number")) \o ": "
                   \o escapeMarkdownV2(Prop(pr, "title")) \o "* [" \o action \o "]("
                   \o StringOf(Prop(pr, "html_url")) \o ")"
                   \o (CASE action = "closed" ->
                              (IF Truthy(Prop(pr, "merged")) THEN " \\(*Merged*\\)" ELSE " \\(*Not Merged*\\)")
                         [] action = "assigned" -> " to " \o escapeMarkdownV2(Assignee(p))
                         [] action = "labeled" ->
                              " with label " \o BQ \o escapeMarkdownV2(LabelName1(p)) \o BQ
                         [] OTHER -> ""))

\* case "issues" (worker.js:264-282)
Issues1(p, header) ==
    LET issue == Prop(p, "issue")
        action == escapeMarkdownV2(Prop(p, "action"))
    IN IF PropThrows(issue) \/ escapeThrows(Prop(issue, "title")) \/ escapeThrows(Prop(p, "action"))
       THEN Threw
       ELSE IF action = "assigned" /\ escapeThrows(Assignee(p)) THEN Threw
       ELSE IF action = "labeled" /\ escapeThrows(LabelName1(p)) THEN Threw
       ELSE Return(header \o "*Issue #" \o StringOf(Prop(issue, "number")) \o ": "
                   \o escapeMarkdownV2(Prop(issue, "title")) \o "* [" \o action \o "]("
                   \o StringOf(Prop(issue, "html_url")) \o ")"
                   \o (CASE action = "assigned" -> " to " \o escapeMarkdownV2(Assignee(p))
                         [] action = "labeled" ->
                              " with label " \o BQ \o escapeMarkdownV2(LabelName1(p)) \o BQ
                         [] OTHER -> ""))

\* A preview whose ellipsis is appended from n characters on
BodyPreviewAtLimit(body, n) ==
    EscapedPrefix(body, n) \o (IF Len(body.s) >= n THEN "\\.\\.\\." ELSE "")

\* comment.body.substring(0, n), escaped, with the ellipsis of a longer body
BodyPreview(body, n) ==
    EscapedPrefix(body, n) \o (IF Len(body.s) > n THEN "\\.\\.\\." ELSE "")

\* case "issue_comment" (worker.js:284-304)
IssueComment1(p, header) ==
    LET issue == Prop(p, "issue")
        comment == Prop(p, "comment")
        action == escapeMarkdownV2(Prop(p, "action"))
        target == "Issue [#" \o StringOf(Prop(issue, "number")) \o " "
                  \o escapeMarkdownV2(Prop(issue, "title")) \o "]("
                  \o StringOf(Prop(comment, "html_url")) \o ")"
    IN IF \/ escapeThrows(Prop(p, "action"))
          \/ PropThrows(issue) \/ escapeThrows(Prop(issue, "title"))
          \/ PropThrows(comment) \/ ~IsStr(Prop(comment, "body"))
       THEN Threw
       ELSE IF action = "created"
       THEN Return(header \o "*New Comment* on " \o target \o "\\n> "
                   \o BodyPreview(Prop(comment, "body"), 150))
       ELSE Return(header \o "Comment " \o action \o " on " \o target)

\* case "commit_comment" (worker.js:306-325)
CommitComment1(p, header) ==
    LET comment == Prop(p, "comment")
        action == escapeMarkdownV2(Prop(p, "action"))
        target == "Commit [" \o BQ \o EscapedPrefix(Prop(comment, "commit_id"), 7) \o BQ \o "]("
                  \o StringOf(Prop(comment, "html_url")) \o ")"
    IN IF \/ escapeThrows(Prop(p, "action"))
          \/ PropThrows(comment) \/ ~IsStr(Prop(comment, "commit_id"))
          \/ ~IsStr(Prop(comment, "body"))
       THEN Threw
       ELSE IF action = "created"
       THEN Return(header \o "*New Comment* on " \o target \o "\\n> "
                   \o BodyPreview(Prop(comment, "body"), 150))
       ELSE Return(header \o "Comment " \o action \o " on " \o target)

\* case "release" (worker.js:327-347)
Release1(p, header) ==
    LET release == Prop(p, "release")
        action == escapeMarkdownV2(Prop(p, "action"))
        tagName == escapeMarkdownV2(Prop(release, "tag_name"))
        name == OrElse(Prop(release, "name"), Str("Release " \o tagName))
        withNotes == action = "published" /\ Truthy(Prop(release, "body"))
    IN IF \/ escapeThrows(Prop(p, "action"))
          \/ PropThrows(release) \/ escapeThrows(Prop(release, "tag_name"))
       THEN Threw
       ELSE IF escapeThrows(name) THEN Threw
       ELSE IF withNotes /\ ~IsStr(Prop(release, "body")) THEN Threw
       ELSE Return(header \o "*Release " \o escapeMarkdownV2(name) \o "* (" \o tagName \o ") ["
                   \o action \o "](" \o StringOf(Prop(release, "html_url")) \o ")"
                   \o (IF withNotes THEN "\\n> " \o BodyPreview(Prop(release, "body"), 200)
                       ELSE ""))

\* case "create" (worker.js:349-354) and case "delete" (worker.js:356-361)
RefEvent1(p, header, verb) ==
    IF escapeThrows(Prop(p, "ref_type")) \/ escapeThrows(Prop(p, "ref")) THEN Threw
    ELSE Return(header \o "*" \o verb \o " " \o escapeMarkdownV2(Prop(p, "ref_type")) \o "*: "
                \o BQ \o escapeMarkdownV2(Prop(p, "ref")) \o BQ)

\* case "fork" (worker.js:363-369)
Fork1(p, header) ==
    LET forkee == Prop(p, "forkee")
    IN IF PropThrows(forkee) \/ escapeThrows(Prop(forkee, "full_name")) THEN Threw
       ELSE Return(header \o "*Forked* repository to [" \o escapeMarkdownV2(Prop(forkee, "full_name"))
                   \o "](" \o StringOf(Prop(forkee, "html_url")) \o ")")

\* `p.repository.<field>.toString()` throws
CountThrows(p, field) ==
    PropThrows(Prop(p, "repository")) \/ PropThrows(Prop(Prop(p, "repository"), field))

\* ` \(${escapeMarkdownV2(count.toString())} total\)`
CountClause(p, field) ==
    " \\(" \o escapeMarkdownV2(Str(ToStringMethod(Prop(Prop(p, "repository"), field))))
    \o " total\\)"

\* case "star" (worker.js:371-387)
Star1(p, header) ==
    IF IsString(Prop(p, "action"), "created") THEN
        (IF CountThrows(p, "stargazers_count") THEN Threw
         ELSE Return(header \o "*Starred* repository " \o Icon("star")
                     \o CountClause(p, "stargazers_count")))
    ELSE IF IsString(Prop(p, "action"), "deleted") THEN
        (IF CountThrows(p, "stargazers_count") THEN Threw
         ELSE Return(header \o "*Unstarred* repository " \o Icon("broken heart")
                     \o CountClause(p, "stargazers_count")))
    ELSE Return("")

\* case "watch" (worker.js:389-400)
Watch1(p, header) ==
    IF IsString(Prop(p, "action"), "started") THEN
        (IF CountThrows(p, "watchers_count") THEN Threw
         ELSE Return(header \o "*Started Watching* repository " \o Icon("eyes")
                     \o CountClause(p, "watchers_count")))
    ELSE Return("")

\* The switch of version 1 (worker.js:198-415); the two cases that only break
\* leave the header, the default case clears the message.
Switch1(eventType, p, header) ==
    CASE eventType = "push" -> Push1(p, header)
      [] eventType = "pull_request" -> PullRequest1(p, header)
      [] eventType = "issues" -> Issues1(p, header)
      [] eventType = "issue_comment" -> IssueComment1(p, header)
      [] eventType = "commit_comment" -> CommitComment1(p, header)
      [] eventType = "release" -> Release1(p, header)
      [] eventType = "create" -> RefEvent1(p, header, "Created")
      [] eventType = "delete" -> RefEvent1(p, header, "Deleted")
      [] eventType = "fork" -> Fork1(p, header)
      [] eventType = "star" -> Star1(p, header)
      [] eventType = "watch" -> Watch1(p, header)
      [] eventType = "pull_request_review_comment" -> Return(header)
      [] eventType = "discussion" -> Return(header)
      [] OTHER -> Return("")

\* The end of formatMessage (worker.js:418-441): a message that is exactly the
\* header is dropped, anything else is trimmed.
Finish(header, m) ==
    IF StartsWith(m, header) /\ Len(m) = Len(header) THEN "" ELSE Trim(m)

formatMessage1(eventType, p) ==
    IF Header1Throws(p) THEN Threw
    ELSE LET r == Switch1(eventType, p, Header1(p))
         IN IF r.threw THEN Threw ELSE Return(Finish(Header1(p), r.msg))

(***************************************************************************)
(* formatMessage, version 2 (the worker of src/README.md)                  *)
(***************************************************************************)

\* senderName (README.md:306) and repoName (README.md:310), before escaping
SenderName2(p) == OrElse(OptProp(Prop(p, "sender"), "login"), Str("unknown_user"))
RepoName2(p) == OrElse(OptProp(Prop(p, "repository"), "full_name"), Str(""))

\* The common elements (README.md:301-322) throw
Header2Throws(p) ==
    PropThrows(p) \/ escapeThrows(SenderName2(p)) \/ escapeThrows(RepoName2(p))

\* url ? `[${name}](${url})` : name
LinkTo(name, url) == IF Truthy(url) THEN "[" \o name \o "](" \o StringOf(url) \o ")" ELSE name

userLink(p) == LinkTo(escapeMarkdownV2(SenderName2(p)), OptProp(Prop(p, "sender"), "html_url"))

repoLink(p) ==
    IF escapeMarkdownV2(RepoName2(p)) = "" THEN ""
    ELSE LinkTo(escapeMarkdownV2(RepoName2(p)), OptProp(Prop(p, "repository"), "html_url"))

repoContext(p) == IF repoLink(p) = "" THEN "" ELSE "in " \o repoLink(p)

\* case "create" (README.md:349-355) and case "delete" (README.md:356-362)
RefEvent2(p, created) ==
    LET refType == OrElse(Prop(p, "ref_type"), Str("item"))
        refName == OrElse(Prop(p, "ref"), Str("unknown"))
    IN IF escapeThrows(refType) \/ escapeThrows(refName) THEN Threw
       ELSE Return(userLink(p)
                   \o (IF created THEN " " \o Icon("seedling") \o " created "
                       ELSE " " \o Icon("wastebasket") \o " deleted ")
                   \o escapeMarkdownV2(refType) \o " " \o BQ \o escapeMarkdownV2(refName) \o BQ
                   \o (IF created THEN " " \o repoContext(p) ELSE " from " \o repoLink(p)))

\* (x.body || "").substring(0, n), escaped, with the ellipsis of a longer body,
\* appended as a quotation when it is not empty
Quotation(body, n) ==
    LET text == OrElse(body, Str(""))
        preview == BodyPreview(text, n)
    IN IF preview = "" THEN "" ELSE "\\n> " \o preview

\* The target of a comment (README.md:916-927)
TargetThrows(x) == Truthy(OptProp(x, "number")) /\ escapeThrows(OrElse(Prop(x, "title"), Str("")))
TargetLink(kind, x) ==
    kind \o " [#" \o StringOf(Prop(x, "number")) \o " "
    \o escapeMarkdownV2(OrElse(Prop(x, "title"), Str(""))) \o "]("
    \o StringOf(OrElse(Prop(x, "html_url"), Str("#"))) \o ")"

\* case "issue_comment", case "pull_request_review_comment" (README.md:908-945)
Comment2(p) ==
    LET comment == Prop(p, "comment")
        action == Prop(p, "action")
        issue == Prop(p, "issue")
        pr == Prop(p, "pull_request")
        commentUrl == OptProp(comment, "html_url")
        targetLink == IF Truthy(OptProp(pr, "number")) THEN TargetLink("pull request", pr)
                      ELSE IF Truthy(OptProp(issue, "number")) THEN TargetLink("issue", issue)
                      ELSE "an item"
    IN IF TargetThrows(pr) \/ (~Truthy(OptProp(pr, "number")) /\ TargetThrows(issue)) THEN Threw
       ELSE IF ~Truthy(commentUrl) \/ IsString(action, "deleted") THEN
            (IF escapeThrows(action) THEN Threw
             ELSE Return(userLink(p) \o " " \o escapeMarkdownV2(action) \o " a comment on "
                         \o targetLink \o " " \o repoContext(p)))
       ELSE IF Truthy(Prop(comment, "body")) /\ ~IsStr(Prop(comment, "body")) THEN Threw
       ELSE Return(userLink(p) \o " "
                   \o (IF IsString(action, "edited") THEN "edited a comment on" ELSE "commented on")
                   \o " " \o targetLink \o " " \o repoContext(p)
                   \o " \\([View Comment](" \o StringOf(commentUrl) \o ")\\)"
                   \o Quotation(Prop(comment, "body"), 150))

\* case "commit_comment" (README.md:946-971)
CommitComment2(p) ==
    LET comment == Prop(p, "comment")
        action == Prop(p, "action")
        commitId == OptProp(comment, "commit_id")
        commitShaShort == IF IsNullish(commitId) \/ SubstringTo(commitId.s, 7) = "" THEN "unknown"
                          ELSE escapeMarkdownV2(Str(SubstringTo(commitId.s, 7)))
        commentUrl == OptProp(comment, "html_url")
    IN IF ~IsNullish(commitId) /\ ~IsStr(commitId) THEN Threw
       ELSE IF ~Truthy(commentUrl) \/ IsString(action, "deleted") THEN
            (IF escapeThrows(action) THEN Threw
             ELSE Return(userLink(p) \o " " \o escapeMarkdownV2(action) \o " a comment on commit "
                         \o BQ \o commitShaShort \o BQ \o " " \o repoContext(p)))
       ELSE IF Truthy(Prop(comment, "body")) /\ ~IsStr(Prop(comment, "body")) THEN Threw
       ELSE Return(userLink(p) \o " "
                   \o (IF IsString(action, "edited") THEN "edited a comment on" ELSE "commented on")
                   \o " commit [" \o BQ \o commitShaShort \o BQ \o "](" \o StringOf(commentUrl) \o ") "
                   \o repoContext(p)
                   \o Quotation(Prop(comment, "body"), 150))

\* case "fork" (README.md:1177-1188)
Fork2(p) ==
    LET forkeeName == OrElse(OptProp(Prop(p, "forkee"), "full_name"), Str("unknown"))
    IN IF escapeThrows(forkeeName) THEN Threw
       ELSE Return(userLink(p) \o " " \o Icon("fork") \o " forked " \o repoLink(p) \o " to "
                   \o LinkTo(escapeMarkdownV2(forkeeName), OptProp(Prop(p, "forkee"), "html_url")))

\* case "star" (README.md:1189-1197)
Star2(p) ==
    IF IsString(Prop(p, "action"), "created")
    THEN Return(userLink(p) \o " " \o Icon("glowing star") \o " starred " \o repoLink(p))
    ELSE IF IsString(Prop(p, "action"), "deleted")
    THEN Return(userLink(p) \o " " \o Icon("broken heart") \o " unstarred " \o repoLink(p))
    ELSE Return("")

\* case "watch" (README.md:1198-1204)
Watch2(p) ==
    IF IsString(Prop(p, "action"), "started")
    THEN Return(userLink(p) \o " " \o Icon("eyes") \o " started watching " \o repoLink(p))
    ELSE Return("")

\* actionText of a release (README.md:1219-1246)
ReleaseActionText(action) ==
    CASE IsString(action, "published") -> Icon("package") \o " published"
      [] IsString(action, "unpublished") -> "unpublished"
      [] IsString(action, "created") -> "created release draft"
      [] IsString(action, "edited") -> "edited"
      [] IsString(action, "deleted") -> "deleted"
      [] IsString(action, "prereleased") -> "published pre-release"
      [] IsString(action, "released") -> "published release"
      [] OTHER -> "performed action " \o BQ \o escapeMarkdownV2(action) \o BQ \o " on"

\* case "release" (README.md:1205-1266)
Release2(p) ==
    LET release == Prop(p, "release")
        action == Prop(p, "action")
        tag == OrElse(OptProp(release, "tag_name"), Str("tag?"))
        tagName == escapeMarkdownV2(tag)
        name == OrElse(OptProp(release, "name"), OrElse(Str(tagName), Str("release?")))
        releaseName == escapeMarkdownV2(name)
        releaseUrl == OptProp(release, "html_url")
        body == OptProp(release, "body")
        withNotes == /\ \E a \in {"published", "created", "prereleased", "released"} :
                            IsString(action, a)
                     /\ Truthy(body)
    IN IF escapeThrows(tag) THEN Threw
       ELSE IF escapeThrows(name) \/ escapeThrows(action) THEN Threw
       ELSE IF ~Truthy(releaseUrl) /\ ~IsString(action, "deleted") THEN
            Return(userLink(p) \o " performed action " \o BQ \o escapeMarkdownV2(action) \o BQ
                   \o " on release " \o BQ \o releaseName \o BQ \o " " \o repoContext(p))
       ELSE IF withNotes /\ ~IsStr(body) THEN Threw
       ELSE Return(userLink(p) \o " " \o ReleaseActionText(action) \o " "
                   \o (IF IsString(action, "deleted") THEN "release " \o BQ \o releaseName \o BQ
                       ELSE "release [" \o releaseName \o "]("
                            \o StringOf(OrElse(releaseUrl, Str("#"))) \o ")")
                   \o " " \o repoContext(p)
                   \o (IF withNotes THEN Quotation(body, 200) ELSE ""))

\* icon and stateText of a review (README.md:855-873): reviewState, the escaped
\* state, is compared with the four state names
ReviewWording(reviewState) ==
    CASE reviewState = "approved" -> Icon("check mark") \o " approved the changes"
      [] reviewState = "changes_requested" -> Icon("warning") \o " requested changes"
      [] reviewState = "commented" -> Icon("speech balloon") \o " commented"
      [] reviewState = "dismissed" -> Icon("prohibited") \o " dismissed a review"
      [] OTHER -> Icon("eyes") \o " (" \o BQ \o reviewState \o BQ \o ")"

\* case "pull_request_review" (README.md:842-885)
Review2(p) ==
    LET review == Prop(p, "review")
        pr == Prop(p, "pull_request")
        reviewUrl == OptProp(review, "html_url")
    IN IF escapeThrows(OptProp(review, "state")) THEN Threw
       ELSE IF ~Truthy(OptProp(pr, "number")) \/ ~Truthy(OptProp(pr, "html_url")) THEN Return("")
       ELSE IF Truthy(OptProp(review, "body")) /\ ~IsStr(OptProp(review, "body")) THEN Threw
       ELSE Return(userLink(p) \o " " \o ReviewWording(escapeMarkdownV2(OptProp(review, "state")))
                   \o " on pull request [#" \o StringOf(OptProp(pr, "number")) \o "]("
                   \o StringOf(OptProp(pr, "html_url")) \o ") "
                   \o (IF Truthy(reviewUrl)
                       THEN "\\([View Review](" \o StringOf(reviewUrl) \o ")\\) " ELSE "")
                   \o repoContext(p)
                   \o Quotation(OptProp(review, "body"), 150))

\* The event types of version 2's switch that this model translates; the
\* requests of version 2 carry one of these or a type the switch has no case for.
Modelled2 ==
    {"create", "delete", "pull_request_review", "issue_comment", "pull_request_review_comment",
     "commit_comment", "fork", "star", "watch", "release"}

\* The switch of version 2 (README.md:347-1350), restricted to Modelled2 and
\* the default case.
Switch2(eventType, p) ==
    CASE eventType = "create" -> RefEvent2(p, TRUE)
      [] eventType = "delete" -> RefEvent2(p, FALSE)
      [] eventType = "pull_request_review" -> Review2(p)
      [] eventType \in {"issue_comment", "pull_request_review_comment"} -> Comment2(p)
      [] eventType = "commit_comment" -> CommitComment2(p)
      [] eventType = "fork" -> Fork2(p)
      [] eventType = "star" -> Star2(p)
      [] eventType = "watch" -> Watch2(p)
      [] eventType = "release" -> Release2(p)
      [] OTHER -> Return("")

formatMessage2(eventType, p) ==
    IF Header2Throws(p) THEN Threw
    ELSE LET r == Switch2(eventType, p)
         IN IF r.threw THEN Threw ELSE Return(Trim(r.msg))

\* The case labels of the switch of version 1 (worker.js:198-410)
Cases1 ==
    {"push", "pull_request", "issues", "issue_comment", "commit_comment", "release",
     "create", "delete", "fork", "star", "watch", "pull_request_review_comment",
     "discussion"}

\* The case labels of the switch of version 2 (README.md:347-1343)
Cases2 ==
    {"create", "delete", "repository", "branch_protection_rule", "workflow_job",
     "workflow_run", "page_build", "check_suite", "check_run", "status", "issues",
     "pull_request", "pull_request_review", "pull_request_review_thread", "issue_comment",
     "pull_request_review_comment", "commit_comment", "discussion", "discussion_comment",
     "label", "dependabot_alert", "code_scanning_alert", "fork", "star", "watch", "release",
     "package", "gollum", "team"}

formatMessage(eventType, p) ==
    IF version = 1 THEN formatMessage1(eventType, p) ELSE formatMessage2(eventType, p)

(***************************************************************************)
(* The helpers of version 2: getStatusIcon and formatDuration              *)
(***************************************************************************)

\* getStatusIcon with the waiting status left to the default icon
getStatusIconNoWaiting(status, conclusion) ==
    IF IsString(status, "completed")
    THEN CASE IsString(conclusion, "success") -> Icon("check mark")
           [] IsString(conclusion, "failure") -> Icon("cross mark")
           [] IsString(conclusion, "cancelled") -> Icon("prohibited")
           [] IsString(conclusion, "skipped") -> Icon("next track")
           [] OTHER -> Icon("chequered flag")
    ELSE IF IsString(status, "queued") THEN Icon("hourglass")
    ELSE IF IsString(status, "in_progress") THEN Icon("gear")
    ELSE IF IsString(status, "requested") THEN Icon("raising hand")
    ELSE Icon("information")

\* getStatusIcon(status, conclusion) (README.md:325-345)
getStatusIcon(status, conclusion) ==
    IF IsString(status, "completed")
    THEN CASE IsString(conclusion, "success") -> Icon("check mark")
           [] IsString(conclusion, "failure") -> Icon("cross mark")
           [] IsString(conclusion, "cancelled") -> Icon("prohibited")
           [] IsString(conclusion, "skipped") -> Icon("next track")
           [] OTHER -> Icon("chequered flag")
    ELSE IF IsString(status, "queued") THEN Icon("hourglass")
    ELSE IF IsString(status, "waiting") THEN Icon("hourglass")
    ELSE IF IsString(status, "in_progress") THEN Icon("gear")
    ELSE IF IsString(status, "requested") THEN Icon("raising hand")
    ELSE Icon("information")

\* Days from 1970-01-01 to the day d of month m of year y0 (proleptic Gregorian)
DaysFromCivil(y0, m, d) ==
    LET y == IF m <= 2 THEN y0 - 1 ELSE y0
        era == y \div 400
        yoe == y - era * 400
        doy == ((153 * (IF m > 2 THEN m - 3 ELSE m + 9) + 2) \div 5) + d - 1
        doe == yoe * 365 + (yoe \div 4) - (yoe \div 100) + doy
    IN era * 146097 + doe - 719468

\* The time value of a date-time string YYYY-MM-DDTHH:MM:SSZ in milliseconds,
\* NaN (Invalid Date) for a string of another shape. Time values are counted
\* from 2024-05-01T00:00:00Z, which leaves the difference of two of them as it is.
DateParse(s) ==
    LET Field(a, b) == ParseDigits(SubSeq(s, a, b), 0)
        Value(y, mo, d, h, mi, sec) ==
            IF \/ \E f \in {y, mo, d, h, mi, sec} : f.rest # ""
               \/ mo.n \notin 1..12 \/ d.n \notin 1..31
               \/ h.n > 23 \/ mi.n > 59 \/ sec.n > 59
            THEN NaN
            ELSE Number(((((DaysFromCivil(y.n, mo.n, d.n) - DaysFromCivil(2024, 5, 1)) * 24
                            + h.n) * 60 + mi.n) * 60 + sec.n) * 1000)
    IN IF \/ Len(s) # 20
          \/ <<Ch(s, 5), Ch(s, 8), Ch(s, 11), Ch(s, 14), Ch(s, 17), Ch(s, 20)>>
                # <<"-", "-", "T", ":", ":", "Z">>
       THEN NaN
       ELSE Value(Field(1, 4), Field(6, 7), Field(9, 10), Field(12, 13), Field(15, 16),
                  Field(18, 19))

\* The time value of new Date(v)
DateValue(v) ==
    CASE v.t = "string" -> DateParse(v.s)
      [] v.t = "number" -> Number(v.n)
      [] OTHER -> NaN

\* end - start
Minus(end, start) == IF end.nan \/ start.nan THEN NaN ELSE Number(end.n - start.n)

\* Math.floor(durationMs / d) % 60 and Math.floor(durationMs / d)
FloorDiv(x, d) == IF x.nan THEN NaN ELSE Number(x.n \div d)
Mod60(x) == IF x.nan THEN NaN ELSE Number(x.n % 60)

\* The minutes taken without % 60
minutesTotal(durationMs) == FloorDiv(durationMs, 1000 * 60)

seconds(durationMs) == Mod60(FloorDiv(durationMs, 1000))
minutes(durationMs) == Mod60(FloorDiv(durationMs, 1000 * 60))
hours(durationMs) == FloorDiv(durationMs, 1000 * 60 * 60)

\* `${x}` of a number
NumberToString(x) == IF x.nan THEN "NaN" ELSE NumToString(x.n)

\* x > 0
Positive(x) == ~x.nan /\ x.n > 0

durationStr(durationMs) ==
    (IF Positive(hours(durationMs)) THEN NumberToString(hours(durationMs)) \o "h " ELSE "")
    \o (IF Positive(minutes(durationMs)) THEN NumberToString(minutes(durationMs)) \o "m "
        ELSE "")
    \o NumberToString(seconds(durationMs)) \o "s"

\* formatDuration(startStr, endStr) (README.md:269-291). No statement of the
\* try block throws for a string or a number, so the catch block is not entered.
formatDuration(startStr, endStr) ==
    LET Took(durationMs) ==
            IF ~durationMs.nan /\ durationMs.n < 0 THEN ""
            ELSE "(took " \o escapeMarkdownV2(Str(Trim(durationStr(durationMs)))) \o ")"
    IN IF ~Truthy(startStr) \/ ~Truthy(endStr) THEN ""
       ELSE Took(Minus(DateValue(endStr), DateValue(startStr)))

(***************************************************************************)
(* The environment and the requests                                        *)
(***************************************************************************)

\* The secret set for the webhook at GitHub; genuine deliveries are signed with it.
HookSecret == "s3cr3t/key"

\* env.COS_TIMELESS_GITHUB_SECRETS: not set, empty, or the webhook's secret
Secrets == {Undefined, Str(""), Str(HookSecret)}

\* The three Telegram bindings are set (worker.js:455-459)
Configured(e) ==
    /\ Truthy(e.COS_TELEGRAM_BOT_TOKEN)
    /\ Truthy(e.COS_TELEGRAM_CHAT_ID)
    /\ Truthy(e.COS_TELEGRAM_MESSAGE_THREAD_ID)

\* The three Telegram bindings: complete, or one of them missing
TelegramConfigs ==
    {[COS_TELEGRAM_BOT_TOKEN |-> IF missing = 1 THEN Undefined ELSE Str("12345:token"),
      COS_TELEGRAM_CHAT_ID |-> IF missing = 2 THEN Undefined ELSE Str("-100200300"),
      COS_TELEGRAM_MESSAGE_THREAD_ID |-> IF missing = 3 THEN Str("") ELSE Str("7")] :
        missing \in 0..3}

Env(secret, t) ==
    [COS_TIMELESS_GITHUB_SECRETS |-> secret,
     COS_TELEGRAM_BOT_TOKEN |-> t.COS_TELEGRAM_BOT_TOKEN,
     COS_TELEGRAM_CHAT_ID |-> t.COS_TELEGRAM_CHAT_ID,
     COS_TELEGRAM_MESSAGE_THREAD_ID |-> t.COS_TELEGRAM_MESSAGE_THREAD_ID]

\* The environments: each state of the secret with the Telegram bindings
\* complete, and each incomplete set of bindings with the secret not set
Envs ==
    {Env(secret, t) : secret \in Secrets, t \in {c \in TelegramConfigs : Configured(c)}}
    \cup {Env(Undefined, t) : t \in TelegramConfigs}

\* The signature GitHub computes: lowercase hex of the tag of the body under the secret
CorrectHex(secret, body) == HexOf(HmacSign(TextEncode(secret), TextEncode(body)))

\* hex with the digit at position at moved by places through 0..f
FlipHex(hex, at, by) ==
    SubSeq(hex, 1, at - 1)
    \o Ch(HexDigits, ((IndexOf(Ch(hex, at), HexDigits) - 1 + by) % 16) + 1)
    \o SubSeq(hex, at + 1, Len(hex))

\* hex with its letters in upper case
UpperHex(hex) ==
    LET up(c) == CASE c = "a" -> "A" [] c = "b" -> "B" [] c = "c" -> "C"
                   [] c = "d" -> "D" [] c = "e" -> "E" [] c = "f" -> "F" [] OTHER -> c
        F[i \in 0..Len(hex)] == IF i = 0 THEN "" ELSE F[i - 1] \o up(Ch(hex, i))
    IN F[Len(hex)]

\* An X-Hub-Signature-256 header of a given kind, built around the signature hex
SignatureHeader(kind, hex) ==
    CASE kind.k = "absent" -> Null
      [] kind.k = "empty" -> Str("")
      [] kind.k = "correct" -> Str("sha256=" \o hex)
      [] kind.k = "flip" -> Str("sha256=" \o FlipHex(hex, kind.at, kind.by))
      [] kind.k = "noprefix" -> Str(hex)
      [] kind.k = "sha1" -> Str("sha1=" \o SubSeq(hex, 1, 40))
      [] kind.k = "prefixonly" -> Str("sha256=")
      [] kind.k = "short" -> Str("sha256=" \o SubSeq(hex, 1, Len(hex) - 1))
      [] kind.k = "long" -> Str("sha256=" \o hex \o "0")
      [] kind.k = "upper" -> Str("sha256=" \o UpperHex(hex))
      [] kind.k = "nonhex" -> Str("sha256=" \o SubSeq(hex, 1, Len(hex) - 1) \o "g")
      [] kind.k = "nonascii" -> Str("sha256=" \o SubSeq(hex, 1, Len(hex) - 1) \o EAcute)

\* The places a flipped digit is moved by, at most: every other digit is reached
MaxShift == 15

Kind(k) == [k |-> k, at |-> 0, by |-> 0]
Flip(at, by) == [k |-> "flip", at |-> at, by |-> by]

\* The kinds of header the requests of the handler carry
SigKinds ==
    {Kind(k) : k \in {"absent", "empty", "correct", "noprefix", "short", "nonhex"}}
    \cup {Flip(1, 1), Flip(2 * MacLen, MaxShift)}

\* The kinds of header the verifier is given on its own: every kind, and every
\* single digit of the signature moved by 1..MaxShift places
AllSigKinds ==
    {Kind(k) : k \in {"absent", "empty", "correct", "noprefix", "sha1", "prefixonly", "short",
                      "long", "upper", "nonhex", "nonascii"}}
    \cup {Flip(at, by) : at \in 1..(2 * MacLen), by \in 1..MaxShift}

\* The event types version 2's switch has no case for, among those drawn
Unhandled2 == {"push", "ping"}

\* Deliveries: an X-GitHub-Event value and a body text. They cover bodies that
\* do not decode, decoded values that are not objects, objects without the
\* fields an event's case reads or with a field of another type, and
\* deliveries with the fields GitHub sends.
AllDeliveries ==
    {
     <<"push", "null">>,
     <<"star", "null">>,
     <<"ping", "null">>,
     <<"push", "{}">>,
     <<"push", "{\"repository\":{\"full_name\":\"test/repo\"},\"sender\":{\"login\":\"testuser\"}}">>,
     <<"star", "{}">>,
     <<"create", "{}">>,
     <<"fork", "{}">>,
     <<"release", "{}">>,
     <<"pull_request", "{}">>,
     <<"issue_comment", "{}">>,
     <<"commit_comment", "{}">>,
     <<"discussion", "{}">>,
     <<"pull_request_review_comment", "{}">>,
     <<"watch", "{}">>,
     <<"star", "{\"action\":\"created\",\"repository\":{\"full_name\":7}}">>,
     <<"ping", "{\"repository\":{\"full_name\":7}}">>,
     <<"create", "{\"ref\":5,\"ref_type\":\"branch\"}">>,
     <<"star", "{\"action\":\"created\",\"repository\":{\"full_name\":\"octo/hello-world\"}}">>,
     <<"star", "7">>,
     <<"star", "\"text\"">>,
     <<"create", "[1,2]">>,
     <<"push", "">>,
     <<"star", "{\"action\":">>,
     <<"ping", "payload=%7B%7D">>,
     <<"ping", "{\"zen\":\"Keep it simple.\",\"repository\":{\"full_name\":\"octo/hello-world\",\"html_url\":\"https://github.com/octo/hello-world\",\"stargazers_count\":42,\"watchers_count\":7},\"sender\":{\"login\":\"octo_cat\",\"html_url\":\"https://github.com/octo_cat\"}}">>,
     <<"push", "{\"ref\":\"refs/heads/main\",\"compare\":\"https://github.com/octo/hello-world/compare/a...b\",\"commits\":[{\"id\":\"0123456789abcdef\",\"message\":\"Fix the parser (#12)\\n\\nDetails.\",\"url\":\"https://github.com/octo/hello-world/commit/0123456\",\"author\":{\"name\":\"Mona Lisa\",\"username\":\"mona\"}}],\"repository\":{\"full_name\":\"octo/hello-world\",\"html_url\":\"https://github.com/octo/hello-world\",\"stargazers_count\":42,\"watchers_count\":7},\"sender\":{\"login\":\"octo_cat\",\"html_url\":\"https://github.com/octo_cat\"}}">>,
     <<"push", "{\"ref\":\"refs/heads/main\",\"forced\":true,\"commits\":[],\"compare\":\"https://github.com/octo/hello-world/compare/a...b\",\"repository\":{\"full_name\":\"octo/hello-world\",\"html_url\":\"https://github.com/octo/hello-world\",\"stargazers_count\":42,\"watchers_count\":7},\"sender\":{\"login\":\"octo_cat\",\"html_url\":\"https://github.com/octo_cat\"}}">>,
     <<"push", "{\"ref\":\"refs/tags/v1.0\",\"deleted\":true,\"commits\":[],\"repository\":{\"full_name\":\"octo/hello-world\",\"html_url\":\"https://github.com/octo/hello-world\",\"stargazers_count\":42,\"watchers_count\":7},\"sender\":{\"login\":\"octo_cat\",\"html_url\":\"https://github.com/octo_cat\"}}">>,
     <<"pull_request", "{\"action\":\"closed\",\"pull_request\":{\"number\":12,\"title\":\"Add *bold* support\",\"html_url\":\"https://github.com/octo/hello-world/pull/12\",\"merged\":true},\"repository\":{\"full_name\":\"octo/hello-world\",\"html_url\":\"https://github.com/octo/hello-world\",\"stargazers_count\":42,\"watchers_count\":7},\"sender\":{\"login\":\"octo_cat\",\"html_url\":\"https://github.com/octo_cat\"}}">>,
     <<"issues", "{\"action\":\"labeled\",\"issue\":{\"number\":3,\"title\":\"Crash on start\",\"html_url\":\"https://github.com/octo/hello-world/issues/3\"},\"label\":{\"name\":\"bug\"},\"repository\":{\"full_name\":\"octo/hello-world\",\"html_url\":\"https://github.com/octo/hello-world\",\"stargazers_count\":42,\"watchers_count\":7},\"sender\":{\"login\":\"octo_cat\",\"html_url\":\"https://github.com/octo_cat\"}}">>,
     <<"issue_comment", "{\"action\":\"created\",\"issue\":{\"number\":3,\"title\":\"Crash on start\",\"html_url\":\"https://github.com/octo/hello-world/issues/3\"},\"comment\":{\"html_url\":\"https://github.com/octo/hello-world/issues/3#c1\",\"body\":\"Same here.\"},\"repository\":{\"full_name\":\"octo/hello-world\",\"html_url\":\"https://github.com/octo/hello-world\",\"stargazers_count\":42,\"watchers_count\":7},\"sender\":{\"login\":\"octo_cat\",\"html_url\":\"https://github.com/octo_cat\"}}">>,
     <<"commit_comment", "{\"action\":\"created\",\"comment\":{\"commit_id\":\"0123456789abcdef\",\"html_url\":\"https://github.com/octo/hello-world/commit/0123456#c2\",\"body\":\"Nice!\"},\"repository\":{\"full_name\":\"octo/hello-world\",\"html_url\":\"https://github.com/octo/hello-world\",\"stargazers_count\":42,\"watchers_count\":7},\"sender\":{\"login\":\"octo_cat\",\"html_url\":\"https://github.com/octo_cat\"}}">>,
     <<"release", "{\"action\":\"published\",\"release\":{\"tag_name\":\"v1.0\",\"name\":\"First\",\"html_url\":\"https://github.com/octo/hello-world/releases/v1.0\",\"body\":\"Notes.\"},\"repository\":{\"full_name\":\"octo/hello-world\",\"html_url\":\"https://github.com/octo/hello-world\",\"stargazers_count\":42,\"watchers_count\":7},\"sender\":{\"login\":\"octo_cat\",\"html_url\":\"https://github.com/octo_cat\"}}">>,
     <<"create", "{\"ref\":\"feature/x\",\"ref_type\":\"branch\",\"repository\":{\"full_name\":\"octo/hello-world\",\"html_url\":\"https://github.com/octo/hello-world\",\"stargazers_count\":42,\"watchers_count\":7},\"sender\":{\"login\":\"octo_cat\",\"html_url\":\"https://github.com/octo_cat\"}}">>,
     <<"delete", "{\"ref\":\"feature/x\",\"ref_type\":\"branch\",\"repository\":{\"full_name\":\"octo/hello-world\",\"html_url\":\"https://github.com/octo/hello-world\",\"stargazers_count\":42,\"watchers_count\":7},\"sender\":{\"login\":\"octo_cat\",\"html_url\":\"https://github.com/octo_cat\"}}">>,
     <<"fork", "{\"forkee\":{\"full_name\":\"mona/hello-world\",\"html_url\":\"https://github.com/mona/hello-world\"},\"repository\":{\"full_name\":\"octo/hello-world\",\"html_url\":\"https://github.com/octo/hello-world\",\"stargazers_count\":42,\"watchers_count\":7},\"sender\":{\"login\":\"octo_cat\",\"html_url\":\"https://github.com/octo_cat\"}}">>,
     <<"star", "{\"action\":\"created\",\"repository\":{\"full_name\":\"octo/hello-world\",\"html_url\":\"https://github.com/octo/hello-world\",\"stargazers_count\":42,\"watchers_count\":7},\"sender\":{\"login\":\"octo_cat\",\"html_url\":\"https://github.com/octo_cat\"}}">>,
     <<"star", "{\"action\":\"deleted\",\"repository\":{\"full_name\":\"octo/hello-world\",\"html_url\":\"https://github.com/octo/hello-world\",\"stargazers_count\":42,\"watchers_count\":7},\"sender\":{\"login\":\"octo_cat\",\"html_url\":\"https://github.com/octo_cat\"}}">>,
     <<"watch", "{\"action\":\"started\",\"repository\":{\"full_name\":\"octo/hello-world\",\"html_url\":\"https://github.com/octo/hello-world\",\"stargazers_count\":42,\"watchers_count\":7},\"sender\":{\"login\":\"octo_cat\",\"html_url\":\"https://github.com/octo_cat\"}}">>,
     <<"watch", "{\"action\":\"stopped\",\"repository\":{\"full_name\":\"octo/hello-world\",\"html_url\":\"https://github.com/octo/hello-world\",\"stargazers_count\":42,\"watchers_count\":7},\"sender\":{\"login\":\"octo_cat\",\"html_url\":\"https://github.com/octo_cat\"}}">>
    }

\* Version 1 is given all of them; version 2 those whose event type has a case
\* translated here (Modelled2) or no case at all (Unhandled2).
Deliveries(v) ==
    {d \in AllDeliveries : v = 1 \/ d[1] \in Modelled2 \cup Unhandled2}

\* Method, X-GitHub-Event and content-type of the requests that the checks at
\* the head of fetch turn away, and of one they let through.
Fronts ==
    {<<"GET", Str("push"), Str("application/json")>>,
     <<"PUT", Str("push"), Str("application/json")>>,
     <<"POST", Null, Str("application/json")>>,
     <<"POST", Str(""), Str("application/json")>>,
     <<"POST", Str("push"), Null>>,
     <<"POST", Str("push"), Str("text/plain")>>,
     <<"POST", Str("push"), Str("application/json; charset=utf-8")>>,
     <<"POST", Str("push"), Str("application/json")>>}

Request(method, event, contentType, kind, body) ==
    [method |-> method, event |-> event, contentType |-> contentType,
     signature |-> SignatureHeader(kind, CorrectHex(HookSecret, body)), body |-> body]

\* The requests a worker of version v is sent
Requests(v) ==
    {Request("POST", Str(d[1]), Str("application/json"), k, d[2]) :
        d \in Deliveries(v), k \in SigKinds}
    \cup {Request(f[1], f[2], f[3], Kind("correct"), "{}") : f \in Fronts}

NoRequest == [method |-> "", event |-> Null, contentType |-> Null, signature |-> Null, body |-> ""]

\* The invocations of fetch that run side by side, at most
NumCalls == 2

\* An invocation that has not started: the request it is given, where it
\* stands, its Response, the message handed to sendTelegramMessage and where
\* that call stands, and the locals of fetch and of the verifier
NoCall ==
    [req |-> NoRequest, pc |-> "idle", resp |-> 0, escaped |-> FALSE, fault |-> FALSE,
     sends |-> 0, sent |-> "", tg |-> "idle",
     githubEvent |-> Null, githubSignature |-> Null, bodyText |-> "",
     signature |-> "", mac |-> <<>>, verified |-> "none"]

NoCalls == [i \in 1..NumCalls |-> NoCall]

(***************************************************************************)
(* fetch                                                                   *)
(***************************************************************************)

\* The state of a worker with environment e before a request arrives
Idle(v, e) ==
    /\ version = v /\ env = e
    /\ req = NoRequest /\ pc = "idle" /\ resp = 0 /\ escaped = FALSE
    /\ sig = "" /\ keyImported = FALSE /\ digestComputed = FALSE /\ mac = <<>>
    /\ verified = "none" /\ cryptoFault = FALSE
    /\ parsed = FALSE /\ payload = Undefined /\ fmt = "none" /\ message = "" /\ msgSource = "none"
    /\ sendCalls = 0 /\ tgPc = "idle" /\ posts = 0 /\ tgResp = "none" /\ senderThrew = FALSE
    /\ logged = {} /\ calls = NoCalls

Init == \E v \in {1, 2}, e \in Envs : Idle(v, e)

\* return new Response(..., {status})
Return_(status) == /\ resp' = status /\ pc' = "done"

\* The head of fetch (worker.js:12-36): method, event header, content type
Receive ==
    /\ pc = "idle"
    /\ \E r \in Requests(version) :
        /\ req' = r
        /\ IF r.method # "POST" THEN Return_(405)
           ELSE IF ~Truthy(r.event) THEN Return_(400)
           ELSE IF ~Truthy(r.contentType) \/ r.contentType # Str("application/json") THEN Return_(415)
           ELSE /\ pc' = "body" /\ resp' = resp
    /\ UNCHANGED <<calls, version, env, escaped, sig, keyImported, digestComputed, mac, verified,
                   cryptoFault, parsed, payload, fmt, message, msgSource, sendCalls, tgPc,
                   posts, tgResp, senderThrew, logged>>

\* A slip in the test of the secret: only a missing binding disables verification.
SecretDefined(e) == e.COS_TIMELESS_GITHUB_SECRETS # Undefined

\* if (env.COS_TIMELESS_GITHUB_SECRETS) (worker.js:39)
SecretConfigured(e) == Truthy(e.COS_TIMELESS_GITHUB_SECRETS)

\* The body is read and the secret looked at (worker.js:37-53, 68-72)
ReadBody ==
    /\ pc = "body"
    /\ IF SecretConfigured(env)
       THEN IF ~Truthy(req.signature)
            THEN Return_(403) /\ logged' = logged \cup {"error: signature header is missing"}
            ELSE pc' = "verify" /\ UNCHANGED <<resp, logged>>
       ELSE /\ pc' = "parse" /\ resp' = resp
            /\ logged' = logged \cup {"warn: secret is not set"}
    /\ UNCHANGED <<calls, version, env, req, escaped, sig, keyImported, digestComputed, mac, verified,
                   cryptoFault, parsed, payload, fmt, message, msgSource, sendCalls, tgPc,
                   posts, tgResp, senderThrew>>

(***************************************************************************)
(* verifyGitHubSignature(env.COS_TIMELESS_GITHUB_SECRETS, bodyText,        *)
(* githubSignature), a step for each await                                 *)
(***************************************************************************)

\* The prefix test and the substring (worker.js:127-131)
VerifyPrefix ==
    /\ pc = "verify"
    /\ IF ~PrefixOk(req.signature)
       THEN verified' = "false" /\ pc' = "verified" /\ sig' = sig
       ELSE sig' = SignatureOf(req.signature) /\ pc' = "import" /\ verified' = verified
    /\ UNCHANGED <<calls, version, env, req, resp, escaped, keyImported, digestComputed, mac,
                   cryptoFault, parsed, payload, fmt, message, msgSource, sendCalls, tgPc,
                   posts, tgResp, senderThrew, logged>>

\* await crypto.subtle.importKey (worker.js:133-140): it resolves, or it rejects
\* and the verifier's promise rejects with it
ImportKey ==
    /\ pc = "import"
    /\ \/ keyImported' = TRUE /\ pc' = "sign" /\ UNCHANGED <<verified, cryptoFault>>
       \/ cryptoFault' = TRUE /\ verified' = "threw" /\ pc' = "verified" /\ keyImported' = keyImported
    /\ UNCHANGED <<calls, version, env, req, resp, escaped, sig, digestComputed, mac,
                   parsed, payload, fmt, message, msgSource, sendCalls, tgPc,
                   posts, tgResp, senderThrew, logged>>

\* await crypto.subtle.sign (worker.js:142)
Sign ==
    /\ pc = "sign"
    /\ \/ /\ mac' = HmacSign(TextEncode(env.COS_TIMELESS_GITHUB_SECRETS.s), TextEncode(req.body))
          /\ digestComputed' = TRUE /\ pc' = "compare" /\ UNCHANGED <<verified, cryptoFault>>
       \/ /\ cryptoFault' = TRUE /\ verified' = "threw" /\ pc' = "verified"
          /\ UNCHANGED <<mac, digestComputed>>
    /\ UNCHANGED <<calls, version, env, req, resp, escaped, sig, keyImported,
                   parsed, payload, fmt, message, msgSource, sendCalls, tgPc,
                   posts, tgResp, senderThrew, logged>>

\* The hex of the tag and the comparison (worker.js:144-148)
Compare ==
    /\ pc = "compare"
    /\ verified' = IF timingSafeEqual(sig, CalculatedSignature(mac)).equal THEN "true" ELSE "false"
    /\ pc' = "verified"
    /\ UNCHANGED <<calls, version, env, req, resp, escaped, sig, keyImported, digestComputed, mac,
                   cryptoFault, parsed, payload, fmt, message, msgSource, sendCalls, tgPc,
                   posts, tgResp, senderThrew, logged>>

(***************************************************************************)
(* fetch, after the verifier                                               *)
(***************************************************************************)

\* A slip in the test of the verdict: a mismatch is let through.
VerdictStatusLenient(outcome) == IF outcome = "threw" THEN 500 ELSE 0

\* A slip in the catch block: the rejection is answered like a mismatch.
VerdictStatusForbidden(outcome) == IF outcome = "true" THEN 0 ELSE 403

\* The status fetch answers the verifier's outcome with (worker.js:54-67), 0 when
\* it goes on: 403 when the verifier resolved to false, 500 when it rejected
VerdictStatus(outcome) ==
    CASE outcome = "true" -> 0
      [] outcome = "false" -> 403
      [] OTHER -> 500

\* The verifier's promise settles (worker.js:54-67)
AfterVerify ==
    /\ pc = "verified"
    /\ CASE VerdictStatus(verified) = 0 ->
                /\ pc' = "parse" /\ resp' = resp
                /\ logged' = logged \cup {"log: signature verified"}
         [] VerdictStatus(verified) = 403 ->
                Return_(403) /\ logged' = logged \cup {"error: invalid signature"}
         [] OTHER ->
                Return_(VerdictStatus(verified))
                /\ logged' = logged \cup {"error: verifying signature"}
    /\ UNCHANGED <<calls, version, env, req, escaped, sig, keyImported, digestComputed, mac, verified,
                   cryptoFault, parsed, payload, fmt, message, msgSource, sendCalls, tgPc,
                   posts, tgResp, senderThrew>>

\* payload = JSON.parse(bodyText) (worker.js:74-80)
Parse ==
    /\ pc = "parse"
    /\ parsed' = TRUE
    /\ LET r == JSONParse(req.body)
       IN IF r.ok
          THEN payload' = r.v /\ pc' = "format" /\ UNCHANGED <<resp, logged>>
          ELSE /\ Return_(400) /\ payload' = payload
               /\ logged' = logged \cup {"error: failed to parse JSON"}
    /\ UNCHANGED <<calls, version, env, req, escaped, sig, keyImported, digestComputed, mac, verified,
                   cryptoFault, fmt, message, msgSource, sendCalls, tgPc,
                   posts, tgResp, senderThrew>>

\* payload.repository?.full_name || "unknown" (worker.js:93),
\* payload.repository?.full_name || "unknown repo" (README.md:198)
FallbackName(p) ==
    OrElse(OptProp(Prop(p, "repository"), "full_name"),
           Str(IF version = 1 THEN "unknown" ELSE "unknown repo"))

\* The catch block itself throws
FallbackThrows(p) == PropThrows(p) \/ escapeThrows(FallbackName(p))

\* The message of the catch block (worker.js:90-94, README.md:197-202)
Fallback(githubEvent, p) ==
    Icon("warning") \o " Error processing " \o BQ \o escapeMarkdownV2(githubEvent) \o BQ
    \o (IF version = 1
        THEN " event for repo " \o BQ \o escapeMarkdownV2(FallbackName(p)) \o BQ \o "\\."
        ELSE " event for " \o escapeMarkdownV2(FallbackName(p)))

\* message = formatMessage(githubEvent, payload), and the catch block around it
\* (worker.js:82-95). An exception of the catch block is caught by nothing.
Format ==
    /\ pc = "format"
    /\ LET r == formatMessage(req.event.s, payload)
       IN IF ~r.threw
          THEN /\ fmt' = "returned" /\ message' = r.msg /\ msgSource' = "formatter"
               /\ pc' = "respond" /\ UNCHANGED <<escaped, logged>>
          ELSE /\ fmt' = "threw"
               /\ logged' = logged \cup {"error: formatting message"}
               /\ IF FallbackThrows(payload)
                  THEN escaped' = TRUE /\ pc' = "done" /\ UNCHANGED <<message, msgSource>>
                  ELSE /\ message' = Fallback(req.event, payload) /\ msgSource' = "fallback"
                       /\ pc' = "respond" /\ escaped' = escaped
    /\ UNCHANGED <<calls, version, env, req, resp, sig, keyImported, digestComputed, mac, verified,
                   cryptoFault, parsed, payload, sendCalls, tgPc, posts, tgResp, senderThrew>>

\* A slip in the test of the message: every message is sent.
HasMessageAlways(m) == TRUE

\* if (message) (worker.js:97)
HasMessage(m) == m # ""

\* A slip in the guard: the POST is issued without looking at the bindings.
SendStartUnchecked(text, e) ==
    IF text = "" THEN [at |-> "done", posted |-> 0, log |-> {"log: skipping empty message"}]
    ELSE [at |-> "awaiting", posted |-> 1, log |-> {}]

\* sendTelegramMessage(text, env) up to its first await (worker.js:449-482):
\* where it stands then, and whether it has issued the POST
SendStart(text, e) ==
    IF text = "" THEN [at |-> "done", posted |-> 0, log |-> {"log: skipping empty message"}]
    ELSE IF ~Configured(e)
    THEN [at |-> "done", posted |-> 0, log |-> {"error: Telegram secrets not configured"}]
    ELSE [at |-> "awaiting", posted |-> 1, log |-> {}]

\* The end of fetch (worker.js:97-113). sendTelegramMessage(message, env) is
\* called inside ctx.waitUntil and runs to its first await before the Response
\* is returned. Version 2 reads payload.action on the path of the empty
\* message (README.md:214-222).
Respond ==
    /\ pc = "respond"
    /\ IF HasMessage(message)
       THEN LET start == SendStart(message, env)
            IN /\ sendCalls' = sendCalls + 1
               /\ posts' = posts + start.posted
               /\ tgPc' = start.at
               /\ logged' = logged \cup {"log: sending message"} \cup start.log
               /\ Return_(202)
               /\ escaped' = escaped
       ELSE /\ UNCHANGED <<sendCalls, posts, tgPc>>
            /\ IF version = 2 /\ PropThrows(payload)
               THEN escaped' = TRUE /\ pc' = "done" /\ UNCHANGED <<resp, logged>>
               ELSE /\ Return_(200) /\ escaped' = escaped
                    /\ logged' = logged \cup {"log: no message generated"}
    /\ UNCHANGED <<calls, version, env, req, sig, keyImported, digestComputed, mac, verified,
                   cryptoFault, parsed, payload, fmt, message, msgSource, tgResp, senderThrew>>

(***************************************************************************)
(* sendTelegramMessage, after its first await                              *)
(***************************************************************************)

\* A slip in the catch block: the exception is logged and thrown again.
CatchRethrows == [at |-> "done", threw |-> TRUE, log |-> {"error: failed to send message"}]

\* Where an exception thrown inside the try block goes (worker.js:475, 493-495):
\* the catch block logs it and the function returns
Catch == [at |-> "done", threw |-> FALSE, log |-> {"error: failed to send message"}]

\* What follows a response that is not ok, once its body is read (worker.js:484-489)
ApiError == [at |-> "done", threw |-> FALSE, log |-> {"error: Telegram API error"}]

\* await fetch(telegramApiUrl, ...) settles (worker.js:476-492): with a 2xx
\* response, with another response, or by rejecting
FetchSettles ==
    /\ tgPc = "awaiting"
    /\ \E outcome \in {"ok", "not_ok", "rejected"} :
        /\ tgResp' = outcome
        /\ CASE outcome = "ok" ->
                    /\ tgPc' = "done" /\ senderThrew' = senderThrew
                    /\ logged' = logged \cup {"log: message sent"}
             [] outcome = "not_ok" ->
                    /\ tgPc' = "reading" /\ UNCHANGED <<senderThrew, logged>>
             [] OTHER ->
                    /\ tgPc' = Catch.at /\ senderThrew' = Catch.threw
                    /\ logged' = logged \cup Catch.log
    /\ UNCHANGED <<calls, version, env, req, pc, resp, escaped, sig, keyImported, digestComputed, mac,
                   verified, cryptoFault, parsed, payload, fmt, message, msgSource, sendCalls,
                   posts>>

\* await response.json() (worker.js:485), await response.text() (README.md:1389):
\* the error body is read, or reading it throws (in version 1 also when the
\* body is not JSON)
ReadErrorBody ==
    /\ tgPc = "reading"
    /\ \E read \in BOOLEAN :
        LET next == IF read THEN ApiError ELSE Catch
        IN /\ tgPc' = next.at /\ senderThrew' = next.threw
           /\ logged' = logged \cup next.log
    /\ UNCHANGED <<calls, version, env, req, pc, resp, escaped, sig, keyImported, digestComputed, mac,
                   verified, cryptoFault, parsed, payload, fmt, message, msgSource, sendCalls,
                   posts, tgResp>>

Next ==
    \/ Receive \/ ReadBody
    \/ VerifyPrefix \/ ImportKey \/ Sign \/ Compare
    \/ AfterVerify \/ Parse \/ Format \/ Respond
    \/ FetchSettles \/ ReadErrorBody

Spec == Init /\ [][Next]_vars

(***************************************************************************)
(* The verifier on its own: verifyGitHubSignature(secret, body,            *)
(* signatureHeader) called with a secret, a body and a header              *)
(***************************************************************************)

VerifySecrets == {HookSecret, "k"}
VerifyBodies == {"{}", "{\"zen\":\"Keep it simple.\",\"hook_id\":1}"}

VInit ==
    \E v \in {1, 2}, secret \in VerifySecrets, body \in VerifyBodies, kind \in AllSigKinds :
        /\ version = v
        /\ env = Env(Str(secret), CHOOSE t \in TelegramConfigs : Configured(t))
        /\ req = [method |-> "POST", event |-> Str("ping"), contentType |-> Str("application/json"),
                  signature |-> SignatureHeader(kind, CorrectHex(secret, body)), body |-> body]
        /\ pc = "verify" /\ resp = 0 /\ escaped = FALSE
        /\ sig = "" /\ keyImported = FALSE /\ digestComputed = FALSE /\ mac = <<>>
        /\ verified = "none" /\ cryptoFault = FALSE
        /\ parsed = FALSE /\ payload = Undefined /\ fmt = "none" /\ message = ""
        /\ msgSource = "none" /\ sendCalls = 0 /\ tgPc = "idle" /\ posts = 0
        /\ tgResp = "none" /\ senderThrew = FALSE /\ logged = {} /\ calls = NoCalls

VNext == VerifyPrefix \/ ImportKey \/ Sign \/ Compare

VerifySpec == VInit /\ [][VNext]_vars

(***************************************************************************)
(* escapeMarkdownV2 on its own: escapeMarkdownV2(text) called with a text  *)
(***************************************************************************)

\* The length of the texts escapeMarkdownV2 is given, at most
MaxText == 3

\* An ordinary character, the backslash and four characters of the reserved class
TextChars == {"a", "\\", "*", "_", ".", "("}

RECURSIVE TextsUpTo(_)
\* The strings over TextChars of length at most n
TextsUpTo(n) ==
    LET Longer(T) == T \cup {t \o c : t \in T, c \in TextChars}
    IN IF n = 0 THEN {""} ELSE Longer(TextsUpTo(n - 1))

\* The arguments: the texts, and values that are not strings
EscapeArguments == {Str(t) : t \in TextsUpTo(MaxText)} \cup {Undefined, Null, Num(0), Num(7)}

EInit ==
    \E v \in {1, 2}, text \in EscapeArguments :
        /\ version = v
        /\ env = Env(Undefined, CHOOSE t \in TelegramConfigs : Configured(t))
        /\ req = NoRequest
        /\ pc = "escape" /\ resp = 0 /\ escaped = FALSE
        /\ sig = "" /\ keyImported = FALSE /\ digestComputed = FALSE /\ mac = <<>>
        /\ verified = "none" /\ cryptoFault = FALSE
        /\ parsed = FALSE /\ payload = text /\ fmt = "none" /\ message = ""
        /\ msgSource = "none" /\ sendCalls = 0 /\ tgPc = "idle" /\ posts = 0
        /\ tgResp = "none" /\ senderThrew = FALSE /\ logged = {} /\ calls = NoCalls

\* escapeMarkdownV2(text) (worker.js:175-179, README.md:261-267), text held in
\* payload and the string returned in message
Escape ==
    /\ pc = "escape"
    /\ pc' = "escaped"
    /\ IF escapeThrows(payload)
       THEN fmt' = "threw" /\ message' = message
       ELSE fmt' = "returned" /\ message' = escapeMarkdownV2(payload)
    /\ UNCHANGED <<calls, version, env, req, resp, escaped, sig, keyImported, digestComputed, mac,
                   verified, cryptoFault, parsed, payload, msgSource, sendCalls, tgPc, posts,
                   tgResp, senderThrew, logged>>

ENext == Escape

EscapeSpec == EInit /\ [][ENext]_vars

(***************************************************************************)
(* formatMessage and the catch block around it on their own:               *)
(* formatMessage(eventType, payload) called with a decoded payload         *)
(***************************************************************************)

\* The number of commits of the pushes formatMessage is given, at most
MaxCommits == 5

Repository == Obj([full_name |-> Str("octo/hello-world")])
Sender == Obj([login |-> Str("mona-lisa")])

\* The i-th commit of a push: ids that differ within their first 7 characters,
\* a message of several lines, an author
Commit(i) ==
    Obj([id |-> Str("c0ffee" \o NumToString(i) \o "89abcdef"),
         message |-> Str("Fix part (#" \o NumToString(i) \o ")\n\nDetails of " \o NumToString(i)),
         url |-> Str("https://github.com/octo/hello-world/commit/c0ffee" \o NumToString(i)),
         author |-> Obj([name |-> Str("Author " \o NumToString(i))])])

\* A push of n commits, or without the commits field when n = -1
PushPayload(ref, n, forced, deleted) ==
    IF n < 0
    THEN Obj([ref |-> Str(ref), forced |-> Bool(forced), deleted |-> Bool(deleted),
              compare |-> Str("https://github.com/octo/hello-world/compare/a...b"),
              repository |-> Repository, sender |-> Sender])
    ELSE Obj([ref |-> Str(ref), forced |-> Bool(forced), deleted |-> Bool(deleted),
              compare |-> Str("https://github.com/octo/hello-world/compare/a...b"),
              commits |-> Arr([i \in 1..n |-> Commit(i)]),
              repository |-> Repository, sender |-> Sender])

Pushes ==
    {PushPayload(ref, n, forced, deleted) :
        ref \in {"refs/heads/feature/x", "refs/tags/v1.0"}, n \in (-1)..MaxCommits,
        forced \in BOOLEAN, deleted \in BOOLEAN}

\* The delete event of the tag the pushes to refs/tags/v1.0 delete
TagDeleted ==
    Obj([ref |-> Str("v1.0"), ref_type |-> Str("tag"), repository |-> Repository,
         sender |-> Sender])

\* A star event that carries action, repository.full_name and sender.login only
StarPayload(action) ==
    Obj([action |-> Str(action), repository |-> Repository, sender |-> Sender])

\* A review of pull request 12 in a state
ReviewPayload(state) ==
    Obj([action |-> Str("submitted"),
         review |-> Obj([state |-> Str(state)]),
         pull_request |-> Obj([number |-> Num(12),
                               html_url |-> Str("https://github.com/octo/hello-world/pull/12")]),
         repository |-> Repository, sender |-> Sender])

\* The body of the README's test request, decoded
TestPayload ==
    Obj([repository |-> Obj([full_name |-> Str("test/repo")]),
         sender |-> Obj([login |-> Str("testuser")])])

\* Events of a payload that carries a sender and no repository
NoRepository ==
    {<<"delete", Obj([ref |-> Str("v1.0"), ref_type |-> Str("tag"), sender |-> Sender])>>,
     <<"create", Obj([ref |-> Str("v1.0"), ref_type |-> Str("tag"), sender |-> Sender])>>,
     <<"fork", Obj([forkee |-> Obj([full_name |-> Str("mona-lisa/hello-world"),
                                    html_url |-> Str("https://github.com/mona-lisa/hello-world")]),
                    sender |-> Sender])>>,
     <<"star", Obj([action |-> Str("created"), sender |-> Sender])>>,
     <<"watch", Obj([action |-> Str("started"), sender |-> Sender])>>,
     <<"watch", Obj([action |-> Str("started"), repository |-> Obj([id |-> Num(7)]),
                     sender |-> Sender])>>}

\* A text of n characters, each of them reserved but the first four
RECURSIVE Dots(_)
Dots(n) == IF n <= 0 THEN "" ELSE IF n = 1 THEN "." ELSE Dots(n \div 2) \o Dots(n - (n \div 2))

BodyOf(n) == "Note" \o Dots(n - 4)

\* How far the body lengths tried lie around the limit of a preview
MaxOver == 1

\* Comments, reviews and releases whose body is as long as limit + k
PreviewPayloads ==
    LET Url == Str("https://github.com/octo/hello-world/x/1")
        Issue == Obj([number |-> Num(7), title |-> Str("Crash"), html_url |-> Url])
    IN {<<"issue_comment",
          Obj([action |-> Str("created"), issue |-> Issue,
               comment |-> Obj([html_url |-> Url, body |-> Str(BodyOf(150 + k))]),
               repository |-> Repository, sender |-> Sender])>> : k \in (-MaxOver)..MaxOver}
       \cup
       {<<"pull_request_review",
          Obj([action |-> Str("submitted"),
               review |-> Obj([state |-> Str("commented"), body |-> Str(BodyOf(150 + k))]),
               pull_request |-> Obj([number |-> Num(12), html_url |-> Url]),
               repository |-> Repository, sender |-> Sender])>> : k \in (-MaxOver)..MaxOver}
       \cup
       {<<"release",
          Obj([action |-> Str("published"),
               release |-> Obj([tag_name |-> Str("v1"), name |-> Str("One"), html_url |-> Url,
                                body |-> Str(BodyOf(200 + k))]),
               repository |-> Repository, sender |-> Sender])>> : k \in (-MaxOver)..MaxOver}

\* The deliveries of the handler whose body decodes, decoded
Decoded(v) ==
    LET Value(d, r) == <<d[1], r.v>>
    IN {Value(d, JSONParse(d[2])) : d \in {x \in Deliveries(v) : JSONParse(x[2]).ok}}

\* The calls: an event type and a payload
FormatInputs(v) ==
    {<<"push", p>> : p \in Pushes \cup {TestPayload}}
    \cup {<<"delete", TagDeleted>>}
    \cup {<<"star", StarPayload(a)>> : a \in {"created", "deleted", "edited"}}
    \cup {<<"pull_request_review", ReviewPayload(st)>> :
            st \in {"approved", "changes_requested", "commented", "dismissed", "pending"}}
    \cup NoRepository \cup PreviewPayloads
    \cup Decoded(v)

FInit ==
    \E v \in {1, 2} : \E call \in FormatInputs(v) :
        /\ version = v
        /\ env = Env(Undefined, CHOOSE t \in TelegramConfigs : Configured(t))
        /\ req = [NoRequest EXCEPT !.method = "POST", !.event = Str(call[1]),
                                   !.contentType = Str("application/json")]
        /\ pc = "format" /\ resp = 0 /\ escaped = FALSE
        /\ sig = "" /\ keyImported = FALSE /\ digestComputed = FALSE /\ mac = <<>>
        /\ verified = "none" /\ cryptoFault = FALSE
        /\ parsed = TRUE /\ payload = call[2] /\ fmt = "none" /\ message = ""
        /\ msgSource = "none" /\ sendCalls = 0 /\ tgPc = "idle" /\ posts = 0
        /\ tgResp = "none" /\ senderThrew = FALSE /\ logged = {} /\ calls = NoCalls

FNext == Format

FormatSpec == FInit /\ [][FNext]_vars

(***************************************************************************)
(* The helpers on their own: getStatusIcon(status, conclusion) and         *)
(* formatDuration(startStr, endStr), the two arguments held in payload and *)
(* the string returned in message                                          *)
(***************************************************************************)

\* The days of May 2024 the timestamps lie on
MaxDay == 2

\* Instants: a day and a time of day
Instants ==
    [day : 1..MaxDay,
     clock : {<<0, 0, 0>>, <<0, 0, 5>>, <<0, 0, 45>>, <<0, 1, 0>>, <<1, 0, 5>>, <<1, 2, 5>>}]

Pad2(n) == IF n < 10 THEN "0" \o NumToString(n) ELSE NumToString(n)

\* The timestamp GitHub writes for an instant
Stamp(i) ==
    "2024-05-" \o Pad2(i.day) \o "T" \o Pad2(i.clock[1]) \o ":" \o Pad2(i.clock[2]) \o ":"
    \o Pad2(i.clock[3]) \o "Z"

\* Timestamps, absent ones, and strings that are no date
StampArguments ==
    {Str(Stamp(i)) : i \in Instants} \cup {Undefined, Null, Str(""), Str("not-a-date")}

StatusArguments ==
    {Str(st) : st \in {"completed", "queued", "waiting", "in_progress", "requested",
                       "pending", ""}} \cup {Undefined, Null}

ConclusionArguments ==
    {Str(c) : c \in {"success", "failure", "cancelled", "skipped", "neutral", "timed_out",
                     ""}} \cup {Undefined, Null}

HInit ==
    \E call \in ({"icon"} \X StatusArguments \X ConclusionArguments)
                \cup ({"duration"} \X StampArguments \X StampArguments) :
        /\ version = 2
        /\ env = Env(Undefined, CHOOSE t \in TelegramConfigs : Configured(t))
        /\ req = NoRequest
        /\ pc = call[1] /\ resp = 0 /\ escaped = FALSE
        /\ sig = "" /\ keyImported = FALSE /\ digestComputed = FALSE /\ mac = <<>>
        /\ verified = "none" /\ cryptoFault = FALSE
        /\ parsed = FALSE /\ payload = Arr(<<call[2], call[3]>>) /\ fmt = "none"
        /\ message = "" /\ msgSource = "none" /\ sendCalls = 0 /\ tgPc = "idle" /\ posts = 0
        /\ tgResp = "none" /\ senderThrew = FALSE /\ logged = {} /\ calls = NoCalls

\* getStatusIcon(status, conclusion)
StatusIcon ==
    /\ pc = "icon"
    /\ pc' = "returned"
    /\ fmt' = "returned"
    /\ msgSource' = "getStatusIcon"
    /\ message' = getStatusIcon(payload.a[1], payload.a[2])
    /\ UNCHANGED <<calls, version, env, req, resp, escaped, sig, keyImported, digestComputed, mac,
                   verified, cryptoFault, parsed, payload, sendCalls, tgPc, posts,
                   tgResp, senderThrew, logged>>

\* formatDuration(startStr, endStr)
Duration ==
    /\ pc = "duration"
    /\ pc' = "returned"
    /\ fmt' = "returned"
    /\ msgSource' = "formatDuration"
    /\ message' = formatDuration(payload.a[1], payload.a[2])
    /\ UNCHANGED <<calls, version, env, req, resp, escaped, sig, keyImported, digestComputed, mac,
                   verified, cryptoFault, parsed, payload, sendCalls, tgPc, posts,
                   tgResp, senderThrew, logged>>

HNext == StatusIcon \/ Duration

HelperSpec == HInit /\ [][HNext]_vars

(***************************************************************************)
(* Invocations of fetch side by side: each runs from one await to the next *)
(* without another running in between, and the awaits settle in any order  *)
(***************************************************************************)

\* All invocations write the locals of the first: the locals kept at module level
SharedFrame(i) == 1

\* Where the locals of invocation i are kept: const and let of the call itself
Frame(i) == i

\* The requests sent side by side: they differ in event, body or signature
ConcRequests ==
    {Request("POST", Str("create"), Str("application/json"), Kind("correct"),
             "{\"ref\":\"v1\",\"ref_type\":\"tag\"}"),
     Request("POST", Str("delete"), Str("application/json"), Flip(1, 1),
             "{\"ref\":\"v2\",\"ref_type\":\"tag\"}"),
     Request("POST", Str("push"), Str("application/json"), Kind("correct"), "{}")}

CInit ==
    /\ \E v \in {1, 2}, secret \in {Undefined, Str(HookSecret)} :
          Idle(v, Env(secret, CHOOSE t \in TelegramConfigs : Configured(t)))

\* fetch from JSON.parse to its return (worker.js:73-113), which no await
\* interrupts: the Response, the message handed to sendTelegramMessage and
\* where that call stops
Complete(githubEvent, bodyText) ==
    LET Answer(status, text, start) ==
            [resp |-> status, escaped |-> FALSE, sends |-> IF text = "" THEN 0 ELSE 1,
             sent |-> text, tg |-> start]
        Uncaught == [resp |-> 0, escaped |-> TRUE, sends |-> 0, sent |-> "", tg |-> "idle"]
        Respond_(p, text) ==
            IF HasMessage(text) THEN Answer(202, text, SendStart(text, env).at)
            ELSE IF version = 2 /\ PropThrows(p) THEN Uncaught
            ELSE Answer(200, "", "idle")
        Formatted_(p, r) ==
            IF ~r.threw THEN Respond_(p, r.msg)
            ELSE IF FallbackThrows(p) THEN Uncaught
            ELSE Respond_(p, Fallback(githubEvent, p))
        Parsed_(r) ==
            IF ~r.ok THEN Answer(400, "", "idle")
            ELSE Formatted_(r.v, formatMessage(githubEvent.s, r.v))
    IN Parsed_(JSONParse(bodyText))

\* Invocation i takes the record `own` for what it returns and `local` for its locals
Becomes(i, own, local) ==
    LET Mine(c) == [c EXCEPT !.req = own.req, !.pc = own.pc, !.resp = own.resp,
                             !.escaped = own.escaped, !.fault = own.fault,
                             !.sends = own.sends, !.sent = own.sent, !.tg = own.tg]
        Locals(c) == [c EXCEPT !.githubEvent = local.githubEvent,
                               !.githubSignature = local.githubSignature,
                               !.bodyText = local.bodyText, !.signature = local.signature,
                               !.mac = local.mac, !.verified = local.verified]
        Written == [calls EXCEPT ![Frame(i)] = Locals(calls[Frame(i)])]
    IN calls' = [Written EXCEPT ![i] = Mine(Written[i])]

\* The record of invocation i after the rest of fetch has run
Completed(own, done) ==
    [own EXCEPT !.pc = "done", !.resp = done.resp, !.escaped = done.escaped,
                !.sends = done.sends, !.sent = done.sent, !.tg = done.tg]

Returned(own, status) == [own EXCEPT !.pc = "done", !.resp = status]

\* The head of fetch up to await requestClone.text() (worker.js:12-37)
Arrive(i) ==
    /\ calls[i].pc = "idle"
    /\ \E r \in ConcRequests :
        LET own == [calls[i] EXCEPT !.req = r]
            local == [calls[Frame(i)] EXCEPT !.githubEvent = r.event,
                                             !.githubSignature = r.signature]
        IN IF r.method # "POST" THEN Becomes(i, Returned(own, 405), calls[Frame(i)])
           ELSE IF ~Truthy(r.event) THEN Becomes(i, Returned(own, 400), local)
           ELSE IF ~Truthy(r.contentType) \/ r.contentType # Str("application/json")
           THEN Becomes(i, Returned(own, 415), local)
           ELSE Becomes(i, [own EXCEPT !.pc = "body"], local)
    /\ UNCHANGED <<version, env, req, pc, resp, escaped, sig, keyImported, digestComputed,
                   mac, verified, cryptoFault, parsed, payload, fmt, message, msgSource,
                   sendCalls, tgPc, posts, tgResp, senderThrew, logged>>

\* fetch goes on after an await of its own. After await requestClone.text()
\* (worker.js:37-53, 127-131) the body is read: without a secret fetch runs to
\* its return, with one up to await crypto.subtle.importKey. After
\* await verifyGitHubSignature (worker.js:54-113) the verdict is answered, or
\* fetch runs to its return.
Resume(i) ==
    /\ calls[i].pc \in {"body", "verified"}
    /\ LET own == calls[i]
           local == IF own.pc = "body"
                    THEN [calls[Frame(i)] EXCEPT !.bodyText = calls[i].req.body]
                    ELSE calls[Frame(i)]
           proceeds == IF own.pc = "body" THEN ~SecretConfigured(env)
                       ELSE VerdictStatus(local.verified) = 0
       IN IF proceeds
          THEN Becomes(i, Completed(own, Complete(local.githubEvent, local.bodyText)), local)
          ELSE IF own.pc = "verified"
          THEN Becomes(i, Returned(own, VerdictStatus(local.verified)), local)
          ELSE IF ~Truthy(local.githubSignature) THEN Becomes(i, Returned(own, 403), local)
          ELSE IF ~PrefixOk(local.githubSignature)
          THEN Becomes(i, [own EXCEPT !.pc = "verified"], [local EXCEPT !.verified = "false"])
          ELSE Becomes(i, [own EXCEPT !.pc = "import"],
                       [local EXCEPT !.signature = SignatureOf(local.githubSignature)])
    /\ UNCHANGED <<version, env, req, pc, resp, escaped, sig, keyImported, digestComputed,
                   mac, verified, cryptoFault, parsed, payload, fmt, message, msgSource,
                   sendCalls, tgPc, posts, tgResp, senderThrew, logged>>

\* await crypto.subtle.importKey settles (worker.js:133-140)
KeyImported(i) ==
    /\ calls[i].pc = "import"
    /\ \/ Becomes(i, [calls[i] EXCEPT !.pc = "sign"], calls[Frame(i)])
       \/ Becomes(i, [calls[i] EXCEPT !.pc = "verified", !.fault = TRUE],
                  [calls[Frame(i)] EXCEPT !.verified = "threw"])
    /\ UNCHANGED <<version, env, req, pc, resp, escaped, sig, keyImported, digestComputed,
                   mac, verified, cryptoFault, parsed, payload, fmt, message, msgSource,
                   sendCalls, tgPc, posts, tgResp, senderThrew, logged>>

\* await crypto.subtle.sign settles, and the comparison (worker.js:142-148)
Signed(i) ==
    /\ calls[i].pc = "sign"
    /\ \/ LET Compared(local, tag) ==
                  [local EXCEPT !.mac = tag,
                                !.verified =
                                    IF timingSafeEqual(local.signature,
                                                       CalculatedSignature(tag)).equal
                                    THEN "true" ELSE "false"]
              Tag(local) == HmacSign(TextEncode(env.COS_TIMELESS_GITHUB_SECRETS.s),
                                     TextEncode(local.bodyText))
          IN Becomes(i, [calls[i] EXCEPT !.pc = "verified"],
                     Compared(calls[Frame(i)], Tag(calls[Frame(i)])))
       \/ Becomes(i, [calls[i] EXCEPT !.pc = "verified", !.fault = TRUE],
                  [calls[Frame(i)] EXCEPT !.verified = "threw"])
    /\ UNCHANGED <<version, env, req, pc, resp, escaped, sig, keyImported, digestComputed,
                   mac, verified, cryptoFault, parsed, payload, fmt, message, msgSource,
                   sendCalls, tgPc, posts, tgResp, senderThrew, logged>>

\* await fetch(telegramApiUrl, ...) of invocation i settles and
\* sendTelegramMessage returns (worker.js:476-495)
Settled(i) ==
    /\ calls[i].tg = "awaiting"
    /\ Becomes(i, [calls[i] EXCEPT !.tg = "done"], calls[Frame(i)])
    /\ UNCHANGED <<version, env, req, pc, resp, escaped, sig, keyImported, digestComputed,
                   mac, verified, cryptoFault, parsed, payload, fmt, message, msgSource,
                   sendCalls, tgPc, posts, tgResp, senderThrew, logged>>

CNext ==
    \E i \in 1..NumCalls :
        \/ Arrive(i) \/ Resume(i) \/ KeyImported(i) \/ Signed(i) \/ Settled(i)

ConcSpec == CInit /\ [][CNext]_vars

(***************************************************************************)
(* Properties                                                              *)
(***************************************************************************)

\* The request got past the method, event-header and content-type checks.
PassedFront ==
    /\ req.method = "POST"
    /\ Truthy(req.event)
    /\ req.contentType = Str("application/json")

\* The secret binding holds a non-empty string.
HasSecret == env.COS_TIMELESS_GITHUB_SECRETS.t = "string" /\ env.COS_TIMELESS_GITHUB_SECRETS.s # ""

LowerHexChars == {Ch(HexDigits, i) : i \in 1..Len(HexDigits)}

\* "sha256=" followed by exactly 64 lowercase hex characters
WellFormed(header) ==
    /\ header.t = "string"
    /\ Len(header.s) = 7 + 2 * MacLen
    /\ SubSeq(header.s, 1, 7) = "sha256="
    /\ \A i \in 8..Len(header.s) : Ch(header.s, i) \in LowerHexChars

\* The header GitHub computes for the request's body under the configured secret
ExpectedHeader == "sha256=" \o CorrectHex(env.COS_TIMELESS_GITHUB_SECRETS.s, req.body)

\* The number of positions at which two strings of the same length differ
DiffCount(a, b) == Cardinality({i \in 1..Len(a) : Ch(a, i) # Ch(b, i)})

\* C1: fetch answers 403 exactly when a secret is configured and the signature
\* header is absent or the verifier resolved to false (which it does only on a
\* header without the prefix or a signature other than the computed one);
\* without a secret (absent or empty) the verifier is never run and the
\* answer is never 403 or 500, whatever the header.
C1_Forbidden ==
    /\ resp = 403 <=>
          /\ pc = "done" /\ PassedFront /\ HasSecret
          /\ ~Truthy(req.signature) \/ verified = "false"
    /\ verified = "false" =>
          \/ ~PrefixOk(req.signature)
          \/ digestComputed /\ sig # HexOf(mac)
    /\ ~HasSecret =>
          /\ verified = "none" /\ ~keyImported /\ ~digestComputed
          /\ resp \notin {403, 500}

\* A request whose signature was computed, compared and found wrong is answered 403.
C1_Witness == resp = 403 /\ HasSecret /\ digestComputed /\ verified = "false"

\* C2: the verifier returns true on the header "sha256=" + hex of the HMAC of
\* the body under the secret, and false on every header that differs from that
\* one in exactly one character.
C2_Verifies ==
    (/\ pc = "verified" /\ ~cryptoFault
     /\ IsStr(req.signature) /\ Len(req.signature.s) = Len(ExpectedHeader)) =>
        /\ DiffCount(req.signature.s, ExpectedHeader) = 0 => verified = "true"
        /\ DiffCount(req.signature.s, ExpectedHeader) = 1 => verified = "false"

\* A header with one hex digit of the signature changed was compared and refused.
C2_Witness ==
    /\ pc = "verified" /\ verified = "false" /\ digestComputed
    /\ WellFormed(req.signature)
    /\ DiffCount(req.signature.s, ExpectedHeader) = 1

\* C3: on a header that is not "sha256=" followed by 64 lowercase hex
\* characters the verifier returns false; it rejects only when the key import
\* or the digest does, never because of the header.
C3_Malformed ==
    /\ (pc = "verified" /\ ~WellFormed(req.signature) /\ ~cryptoFault) => verified = "false"
    /\ verified = "threw" => cryptoFault

\* A header of the wrong length with the prefix went through the comparison and was refused.
C3_Witness ==
    /\ pc = "verified" /\ verified = "false" /\ digestComputed
    /\ ~WellFormed(req.signature) /\ Len(req.signature.s) # 7 + 2 * MacLen

\* C4: on a header that is not "sha256=" followed by 64 lowercase hex
\* characters the verifier neither imports the key nor computes the digest.
C4_NoDigest == ~WellFormed(req.signature) => ~keyImported /\ ~digestComputed

\* C5: when the key import or the digest rejects, fetch answers 500 and not
\* 403, the body is not parsed, formatMessage is not called and nothing is
\* sent; 500 is answered in no other case.
C5_CryptoFailure ==
    /\ cryptoFault =>
          /\ pc = "done" => resp = 500
          /\ resp \in {0, 500}
          /\ ~parsed /\ payload = Undefined /\ fmt = "none" /\ msgSource = "none"
          /\ sendCalls = 0 /\ posts = 0 /\ tgPc = "idle"
    /\ resp = 500 => cryptoFault /\ verified = "threw"

\* The digest computation rejected after the key was imported, and fetch answered 500.
C5_Witness == cryptoFault /\ keyImported /\ pc = "done" /\ resp = 500

\* C6: once the body is decoded, fetch ends with no exception escaping it: with
\* 200 and an empty message, or with 202 and the message given to the sender.
C6_NothingEscapes ==
    (pc = "done" /\ parsed /\ resp # 400) =>
        /\ ~escaped
        /\ \/ resp = 200 /\ message = ""
           \/ resp = 202 /\ message # "" /\ sendCalls = 1

\* The event types formatMessage has a case for
Recognized ==
    IF version = 1
    THEN {"push", "pull_request", "issues", "issue_comment", "commit_comment", "release",
          "create", "delete", "fork", "star", "watch", "pull_request_review_comment",
          "discussion"}
    ELSE Modelled2

\* C7: whenever formatMessage throws, the message is the fallback, it is not
\* empty, it contains the escaped event type and the escaped repository name
\* (or the placeholder), and it is what the sender is called with.
C7_Fallback ==
    (fmt = "threw" /\ pc = "done") =>
        /\ msgSource = "fallback"
        /\ message # ""
        /\ Includes(message, escapeMarkdownV2(req.event))
        /\ Includes(message, escapeMarkdownV2(FallbackName(payload)))
        /\ sendCalls = 1 /\ resp = 202

\* C8: the sender is called at most once; it is called exactly when the answer
\* is 202, which is exactly when the request passed every check, the body was
\* decoded and the formatter or the fallback produced a non-empty message; the
\* answer is 200 exactly when the message produced is empty.
C8_SenderOnce ==
    LET passed == /\ PassedFront
                  /\ HasSecret => verified = "true"
                  /\ parsed /\ payload # Undefined
        produced == msgSource # "none"
    IN /\ sendCalls <= 1
       /\ sendCalls = 1 <=> resp = 202
       /\ resp = 202 <=> (pc = "done" /\ passed /\ produced /\ message # "")
       /\ resp = 200 <=> (pc = "done" /\ passed /\ produced /\ message = "")
       /\ ~HasSecret => verified = "none"

\* A verified delivery whose message is empty is answered 200 without a call of the sender.
C8_Witness == resp = 200 /\ verified = "true" /\ fmt = "returned" /\ sendCalls = 0

\* C9: at most one POST is made for a delivery; once the POST has settled the
\* sender never awaits another; a response that is not ok and a rejected fetch
\* are logged; sendTelegramMessage never throws.
C9_OnePost ==
    /\ posts <= 1 /\ posts <= sendCalls
    /\ ~senderThrew
    /\ tgResp # "none" => posts = 1 /\ tgPc # "awaiting"
    /\ (tgResp \in {"not_ok", "rejected"} /\ tgPc = "done") =>
          logged \cap {"error: failed to send message", "error: Telegram API error"} # {}

\* The POST was rejected, the sender logged it and returned, with one POST made.
C9_Witness == tgResp = "rejected" /\ tgPc = "done" /\ posts = 1

\* C10: formatMessage does not throw on a recognized event type and a payload
\* object, whichever of its fields are absent, null or of another type.
C10_NeverThrows ==
    (payload.t = "object" /\ req.event.s \in Recognized) => fmt # "threw"

RECURSIVE Render(_)
\* What the markup parser shows for an escaped text: each backslash is dropped
\* and the character after it is taken literally.
Render(s) ==
    IF s = "" THEN ""
    ELSE IF Ch(s, 1) = "\\" /\ Len(s) >= 2 THEN Ch(s, 2) \o Render(SubSeq(s, 3, Len(s)))
    ELSE Ch(s, 1) \o Render(SubSeq(s, 2, Len(s)))

RECURSIVE NoneBare(_)
\* No reserved character and no backslash of s stands without a backslash before it.
NoneBare(s) ==
    IF s = "" THEN TRUE
    ELSE IF Ch(s, 1) = "\\" THEN Len(s) >= 2 /\ NoneBare(SubSeq(s, 3, Len(s)))
    ELSE Ch(s, 1) \notin Reserved /\ NoneBare(SubSeq(s, 2, Len(s)))

\* C12: the string escapeMarkdownV2 returns for a text renders as that text,
\* and leaves no reserved character and no backslash without its escape.
C12_EscapeRoundTrip ==
    (pc = "escaped" /\ IsStr(payload)) =>
        /\ fmt = "returned"
        /\ Render(message) = payload.s
        /\ NoneBare(message)

\* formatMessage, and the catch block if it threw, have run.
Formatted == pc \in {"respond", "done"} /\ fmt # "none"

\* C11: for an event type the switch has no case for, formatMessage returns the
\* empty string and does not throw, whatever the payload.
C11_UnrecognizedEmpty ==
    (Formatted /\ req.event.s \notin (IF version = 1 THEN Cases1 ELSE Cases2)) =>
        fmt = "returned" /\ message = ""

\* The reserved characters the message templates never use as markup
Literal == {"#", "(", ")", ".", "!", "-", "=", "+", "{", "}", "|", "~"}

\* The character at position i of m has its backslash before it.
IsEscaped(m, i) == BackslashesBefore(m, i) % 2 = 1

\* Position i of m lies inside a code span: an odd number of backquotes precede it.
InCode(m, i) == Cardinality({j \in 1..(i - 1) : Ch(m, j) = BQ /\ ~IsEscaped(m, j)}) % 2 = 1

\* The first position after from where m has the character c without a
\* backslash before it, Len(m) + 1 when there is none
NextBare(m, c, from) ==
    LET at == {k \in from..Len(m) : Ch(m, k) = c /\ ~IsEscaped(m, k)}
    IN IF at = {} THEN Len(m) + 1 ELSE Least(at)

\* Position i of m lies inside a link [text](target) that opens at j: between
\* the bracket at j and the parenthesis that closes the target
InLinkFrom(m, j, i) ==
    LET Within(mid) ==
            /\ mid < Len(m) /\ Ch(m, mid + 1) = "("
            /\ i <= NextBare(m, ")", mid + 2)
    IN Ch(m, j) = "[" /\ ~IsEscaped(m, j) /\ Within(NextBare(m, "]", j + 1))

InLink(m, i) == \E j \in 1..(i - 1) : InLinkFrom(m, j, i)

\* The positions of m where a reserved character stands without a backslash,
\* outside code spans and links
BareReserved(m) ==
    {i \in 1..Len(m) :
        /\ Ch(m, i) \in Literal
        /\ ~IsEscaped(m, i)
        /\ ~InCode(m, i)
        /\ ~InLink(m, i)}

\* C13: in every non-empty message of formatMessage or of the catch block, no
\* reserved character stands unescaped outside code spans and links.
C13_AllEscaped == (Formatted /\ message # "") => BareReserved(message) = {}

\* C14: when a push that deletes a tag produces a message, the delete event of
\* the same tag produces none.
C14_NoDuplicate ==
    (/\ Formatted /\ req.event = Str("push")
     /\ Prop(payload, "deleted") = Bool(TRUE)
     /\ IsStr(Prop(payload, "ref")) /\ StartsWith(Prop(payload, "ref").s, "refs/tags/")
     /\ msgSource = "formatter" /\ message # "") =>
        formatMessage("delete", TagDeleted).msg = ""

\* The call is a push of version 1 with one of the pushes drawn.
PushCall == version = 1 /\ Formatted /\ req.event = Str("push") /\ payload \in Pushes

\* The number of commits of a push, 0 when it has no commits field
CommitCount(p) == IF "commits" \in DOMAIN p.o THEN Len(p.o.commits.a) ELSE 0

\* What the list shows for the i-th commit drawn: the first 7 characters of its
\* id, the first line of its message, its author
Entry(i) ==
    "[c0ffee" \o NumToString(i) \o "](https://github.com/octo/hello-world/commit/c0ffee"
    \o NumToString(i) \o ") Fix part \\(\\#" \o NumToString(i) \o "\\) \\- _Author "
    \o NumToString(i) \o "_"

\* The number of list items of a message
Listed(m) == Cardinality({i \in 1..(Len(m) - 5) : SubSeq(m, i, i + 5) = "  \\- ["})

\* C15: for a push of n >= 1 commits the message of version 1 reports n,
\* lists the first min(n, 3) commits in the payload's order, each with its
\* short id, the first line of its message and its author, and ends with
\* "and n-3 more" exactly when n > 3.
C15_PushCommits ==
    (PushCall /\ CommitCount(payload) >= 1) =>
        LET n == CommitCount(payload)
            shown == IF n < 3 THEN n ELSE 3
        IN /\ msgSource = "formatter"
           /\ Includes(message, "*Pushed " \o NumToString(n) \o " commit"
                                \o (IF n > 1 THEN "s" ELSE "") \o "* to branch")
           /\ Listed(message) = shown
           /\ \A i \in 1..shown : Includes(message, Entry(i))
           /\ \A i \in 1..(shown - 1) : FindSub(message, Entry(i)) < FindSub(message, Entry(i + 1))
           /\ ~Includes(message, "Details")
           /\ IF n > 3 THEN Includes(message, "\\.\\.\\. and " \o NumToString(n - 3) \o " more")
              ELSE ~Includes(message, " more")

\* A push of five commits was formatted: three are listed and two are counted.
C15_Witness ==
    /\ PushCall /\ CommitCount(payload) = 5
    /\ Listed(message) = 3 /\ Includes(message, "and 2 more")

\* The ref of a push without its refs/heads/ or refs/tags/ prefix
Stripped(ref) ==
    IF StartsWith(ref, "refs/heads/") THEN SubSeq(ref, 12, Len(ref))
    ELSE IF StartsWith(ref, "refs/tags/") THEN SubSeq(ref, 11, Len(ref))
    ELSE ref

C17_Star ==
    (Formatted /\ req.event = Str("star")
     /\ payload \in {StarPayload(a) : a \in {"created", "deleted", "edited"}}) =>
        /\ fmt = "returned"
        /\ payload.o.action = Str("created") =>
              /\ Includes(message, "octo/hello\\-world") /\ Includes(message, "mona\\-lisa")
              /\ Includes(message, Icon("star")) \/ Includes(message, Icon("glowing star"))
        /\ payload.o.action = Str("deleted") =>
              /\ message # ""
              /\ Includes(message, "Unstarred") \/ Includes(message, "unstarred")
        /\ payload.o.action = Str("edited") => message = ""

\* The event kinds listed as supported
Supported ==
    {"push", "pull_request", "issues", "issue_comment", "commit_comment", "release",
     "create", "delete", "fork", "star", "watch"}

\* The call has a payload with the fields GitHub sends and something to report.
Reportable ==
    /\ payload.t = "object"
    /\ req.event.s \in Supported
    /\ \/ payload \in Pushes
       \/ Truthy(OptProp(Prop(payload, "repository"), "html_url"))
    /\ req.event.s = "push" =>
          /\ Prop(payload, "commits").t = "array" /\ Len(Prop(payload, "commits").a) >= 1
          /\ Prop(payload, "deleted") # Bool(TRUE)
    /\ req.event.s = "star" => Prop(payload, "action") \in {Str("created"), Str("deleted")}
    /\ req.event.s = "watch" => Prop(payload, "action") = Str("started")

\* C18: for each supported event kind and a well-formed payload with something
\* to report, formatMessage returns a non-empty message, in both versions.
C18_SupportedHandled ==
    (Formatted /\ Reportable) => fmt = "returned" /\ message # ""

\* C20: for a review of a pull request with a number and a URL, version 2 words
\* each of the four states in its own way and does not show the raw state.
C20_ReviewWording ==
    (version = 2 /\ Formatted /\ req.event = Str("pull_request_review")) =>
        /\ fmt = "returned"
        /\ payload = ReviewPayload("approved") => Includes(message, "approved the changes")
        /\ payload = ReviewPayload("changes_requested") => Includes(message, "requested changes")
        /\ payload = ReviewPayload("commented") => Includes(message, " commented on")
        /\ payload = ReviewPayload("dismissed") => Includes(message, "dismissed a review")
        /\ payload \in {ReviewPayload(st) :
                          st \in {"approved", "changes_requested", "commented", "dismissed"}} =>
              ~Includes(message, "(" \o BQ)

\* C19: with no secret configured, the README's test request (a push whose
\* body carries repository.full_name and sender.login only) is answered 202
\* and the sender is called with a non-empty message.
C19_TestRequest ==
    (/\ pc = "done" /\ PassedFront /\ ~HasSecret
     /\ req.event = Str("push") /\ payload = TestPayload) =>
        resp = 202 /\ sendCalls = 1 /\ message # ""

\* C23: with a secret configured the body is not parsed, not formatted and
\* nothing is sent before the verifier has returned true; formatting follows
\* parsing and sending follows formatting; a request whose signature does not
\* verify is answered 403 whatever its body, and 400 is answered only for a
\* body that was parsed after verification.
C23_VerifyFirst ==
    /\ (/\ HasSecret
        /\ \/ parsed \/ fmt # "none" \/ msgSource # "none" \/ sendCalls > 0 \/ posts > 0
           \/ pc \in {"parse", "format", "respond"}) => verified = "true"
    /\ fmt # "none" => parsed /\ payload # Undefined
    /\ sendCalls > 0 => fmt # "none" /\ message # ""
    /\ posts > 0 => sendCalls > 0
    /\ (pc = "done" /\ PassedFront /\ HasSecret /\ verified # "true" /\ ~cryptoFault) => resp = 403
    /\ (resp = 400 /\ PassedFront) => parsed /\ (HasSecret => verified = "true")

\* A request with a wrong signature and a body that is not JSON went through the
\* comparison and was answered 403 without being parsed.
C23_Witness ==
    /\ HasSecret /\ req.body = "" /\ digestComputed /\ verified = "false"
    /\ resp = 403 /\ ~parsed

\* C24: on two strings of the same length timingSafeEqual runs its loop once
\* for every byte of the first, wherever the first difference is, and returns
\* true exactly when no pair of bytes differs.
C24_NoEarlyExit ==
    (digestComputed /\ pc = "verified" /\ Len(sig) = Len(HexOf(mac))) =>
        LET Holds(r, encodedA, encodedB) ==
                /\ r.steps = Len(encodedA)
                /\ r.equal <=>
                      \A i \in 1..Len(encodedA) :
                          encodedA[i] = (IF i <= Len(encodedB) THEN encodedB[i] ELSE 0)
                /\ verified = (IF r.equal THEN "true" ELSE "false")
        IN Holds(timingSafeEqual(sig, HexOf(mac)), TextEncode(sig), TextEncode(HexOf(mac)))

\* A signature that differs from the computed one in its first digit was
\* compared through all of its bytes.
C24_Witness ==
    /\ digestComputed /\ pc = "verified" /\ verified = "false"
    /\ Len(sig) = 2 * MacLen /\ Ch(sig, 1) # Ch(HexOf(mac), 1)
    /\ timingSafeEqual(sig, HexOf(mac)).steps = 2 * MacLen

\* C30: the response does not depend on the Telegram call: a non-empty message
\* is answered 202, the answer stands whatever the POST comes to, and when a
\* Telegram binding is missing the sender returns without a POST.
C30_ResponseIndependent ==
    /\ (pc = "done" /\ msgSource # "none" /\ message # "") => resp = 202
    /\ tgPc # "idle" => resp = 202 /\ pc = "done"
    /\ tgResp # "none" => resp = 202
    /\ (sendCalls = 1 /\ ~Configured(env)) =>
          /\ posts = 0 /\ tgPc = "done" /\ tgResp = "none" /\ resp = 202
          /\ "error: Telegram secrets not configured" \in logged
    /\ (sendCalls = 1 /\ Configured(env)) => posts = 1

\* A message was handed to the sender with a Telegram binding missing: 202 and no POST.
C30_Witness == sendCalls = 1 /\ ~Configured(env) /\ resp = 202 /\ posts = 0

EndsWith(s, p) == Len(s) >= Len(p) /\ SubSeq(s, Len(s) - Len(p) + 1, Len(s)) = p

\* The payload names no repository
NoRepositoryName ==
    /\ payload.t = "object"
    /\ ~Truthy(OptProp(Prop(payload, "repository"), "full_name"))

\* C21: a non-empty message formatted from a payload without a repository name
\* has no repository clause: no placeholder name, no link with an empty text,
\* and no "in" or "from" left at its end without an object.
C21_NoRepositoryClause ==
    (Formatted /\ msgSource = "formatter" /\ message # "" /\ NoRepositoryName) =>
        /\ ~Includes(message, "Unknown Repo")
        /\ ~Includes(message, "[](")
        /\ ~EndsWith(message, " in")
        /\ ~EndsWith(message, " from")

\* The body a preview is taken from, and the limit of the preview
PreviewBody ==
    IF req.event = Str("release") THEN Prop(Prop(payload, "release"), "body")
    ELSE IF req.event = Str("pull_request_review") THEN Prop(Prop(payload, "review"), "body")
    ELSE Prop(Prop(payload, "comment"), "body")

PreviewLimit == IF req.event = Str("release") THEN 200 ELSE 150

\* C25: a message with a body preview ends with the quotation of the escaped
\* first 150 characters of the comment or review body (200 of the release
\* notes), cut before escaping, followed by the ellipsis exactly when the body
\* is longer than the limit.
C25_Preview ==
    (/\ Formatted /\ msgSource = "formatter" /\ message # ""
     /\ \E call \in PreviewPayloads : call[2] = payload) =>
        LET Expected(raw, limit) ==
                EscapeReserved(SubSeq(raw, 1, IF Len(raw) < limit THEN Len(raw) ELSE limit))
                \o (IF Len(raw) > limit THEN "\\.\\.\\." ELSE "")
        IN EndsWith(message, "\\n> " \o Expected(PreviewBody.s, PreviewLimit))

\* A comment of 151 characters was formatted: its preview ends with the ellipsis.
C25_Witness ==
    /\ Formatted /\ msgSource = "formatter" /\ req.event = Str("issue_comment")
    /\ \E call \in PreviewPayloads : call[2] = payload
    /\ Len(PreviewBody.s) = 151
    /\ EndsWith(message, "\\.\\.\\.\\.")

\* The icon the table gives a status and a conclusion
TableIcon(status, conclusion) ==
    IF status = Str("completed")
    THEN (IF conclusion = Str("success") THEN Icon("check mark")
          ELSE IF conclusion = Str("failure") THEN Icon("cross mark")
          ELSE IF conclusion = Str("cancelled") THEN Icon("prohibited")
          ELSE IF conclusion = Str("skipped") THEN Icon("next track")
          ELSE Icon("chequered flag"))
    ELSE IF status \in {Str("queued"), Str("waiting")} THEN Icon("hourglass")
    ELSE IF status = Str("in_progress") THEN Icon("gear")
    ELSE IF status = Str("requested") THEN Icon("raising hand")
    ELSE Icon("information")

IconReturned == pc = "returned" /\ msgSource = "getStatusIcon"
DurationReturned == pc = "returned" /\ msgSource = "formatDuration"

\* C26: getStatusIcon returns for every status and conclusion the icon of the
\* table, and for a status other than completed the same icon whatever the
\* conclusion.
C26_StatusIcon ==
    IconReturned =>
        /\ message = TableIcon(payload.a[1], payload.a[2])
        /\ payload.a[1] # Str("completed") =>
              \A c \in ConclusionArguments : getStatusIcon(payload.a[1], c) = message

\* A waiting run with a conclusion got the pending icon.
C26_Witness ==
    /\ IconReturned /\ payload.a[1] = Str("waiting") /\ payload.a[2] = Str("failure")
    /\ message = Icon("hourglass")

\* The whole seconds from an instant to the start of the month
SecondsOf(i) == (((i.day - 1) * 24 + i.clock[1]) * 60 + i.clock[2]) * 60 + i.clock[3]

\* The clause of h hours, m minutes and s seconds, each of the first two shown or not
Clause(h, m, s, showHours, showMinutes) ==
    (IF showHours THEN NumToString(h) \o "h " ELSE "")
    \o (IF showMinutes THEN NumToString(m) \o "m " ELSE "")
    \o NumToString(s) \o "s"

\* C27: formatDuration returns "" when the end precedes the start; for a span
\* of d >= 0 seconds it returns (took ...) around the seconds d mod 60, after
\* the minutes (d div 60) mod 60 and the hours d div 3600 where they are shown,
\* and a component that is not zero is shown; 3725 seconds give 1h 2m 5s and
\* 45 seconds give 45s; no component is negative.
C27_Duration ==
    DurationReturned =>
        \A a, b \in Instants :
            payload = Arr(<<Str(Stamp(a)), Str(Stamp(b))>>) =>
                LET Holds(d) ==
                        /\ d < 0 => message = ""
                        /\ d >= 0 =>
                              \E showHours, showMinutes \in BOOLEAN :
                                  /\ d \div 3600 > 0 => showHours
                                  /\ (d \div 60) % 60 > 0 => showMinutes
                                  /\ message = "(took "
                                        \o Clause(d \div 3600, (d \div 60) % 60, d % 60,
                                                  showHours, showMinutes) \o ")"
                        /\ d = 3725 => message = "(took 1h 2m 5s)"
                        /\ d = 45 => message = "(took 45s)"
                        /\ ~Includes(message, "-")
                IN Holds(SecondsOf(b) - SecondsOf(a))

\* A span of 3725 seconds was rendered.
C27_Witness ==
    /\ DurationReturned
    /\ payload = Arr(<<Str("2024-05-01T00:00:00Z"), Str("2024-05-01T01:02:05Z")>>)
    /\ message = "(took 1h 2m 5s)"

\* C28: the hour clause is left out exactly when the hours are 0, the minute
\* clause exactly when the hours and the minutes are 0, and the seconds clause
\* is always there.
C28_LeadingUnits ==
    DurationReturned =>
        \A a, b \in Instants :
            (/\ payload = Arr(<<Str(Stamp(a)), Str(Stamp(b))>>)
             /\ SecondsOf(b) >= SecondsOf(a)) =>
                LET Holds(h, m, s) ==
                        message = "(took " \o Clause(h, m, s, h > 0, h > 0 \/ m > 0) \o ")"
                    Of(d) == Holds(d \div 3600, (d \div 60) % 60, d % 60)
                IN Of(SecondsOf(b) - SecondsOf(a))

\* C29: with a timestamp that is absent or is no date formatDuration returns
\* the empty string.
C29_Unparseable ==
    DurationReturned =>
        ((\E k \in 1..2 : \A i \in Instants : payload.a[k] # Str(Stamp(i))) => message = "")

\* What fetch answers request r with when it runs alone, the crypto calls
\* rejecting or not
Alone(r, fault) ==
    LET verdict(secret) ==
            IF ~PrefixOk(r.signature) THEN "false"
            ELSE IF fault THEN "threw"
            ELSE IF SignatureOf(r.signature)
                        = HexOf(HmacSign(TextEncode(secret), TextEncode(r.body)))
            THEN "true" ELSE "false"
        refusal ==
            IF r.method # "POST" THEN 405
            ELSE IF ~Truthy(r.event) THEN 400
            ELSE IF r.contentType # Str("application/json") THEN 415
            ELSE IF ~Truthy(env.COS_TIMELESS_GITHUB_SECRETS) THEN 0
            ELSE IF ~Truthy(r.signature) THEN 403
            ELSE IF verdict(env.COS_TIMELESS_GITHUB_SECRETS.s) = "false" THEN 403
            ELSE IF verdict(env.COS_TIMELESS_GITHUB_SECRETS.s) = "threw" THEN 500
            ELSE 0
        Rest(done) == [resp |-> done.resp, escaped |-> done.escaped, sent |-> done.sent]
    IN IF refusal # 0 THEN [resp |-> refusal, escaped |-> FALSE, sent |-> ""]
       ELSE Rest(Complete(r.event, r.body))

\* An invocation that returns in a step answers its request, and hands
\* sendTelegramMessage the message, as fetch does for that request alone
SameAsAlone ==
    \A i \in 1..NumCalls :
        (calls[i].pc # "done" /\ calls'[i].pc = "done") =>
            LET Same(own, alone) ==
                    /\ own.resp = alone.resp
                    /\ own.sent = alone.sent
                    /\ own.escaped = alone.escaped
                    /\ own.sends = (IF alone.sent = "" THEN 0 ELSE 1)
            IN Same(calls'[i], Alone(calls'[i].req, calls'[i].fault))

\* What an invocation has returned stays as it is
Kept ==
    \A i \in 1..NumCalls :
        calls[i].pc = "done" =>
            /\ calls'[i].pc = "done" /\ calls'[i].req = calls[i].req
            /\ calls'[i].resp = calls[i].resp /\ calls'[i].sent = calls[i].sent
            /\ calls'[i].sends = calls[i].sends /\ calls'[i].escaped = calls[i].escaped

\* A step changes what belongs to one invocation only
OwnOnly ==
    \A i, j \in 1..NumCalls : (calls'[i] # calls[i] /\ calls'[j] # calls[j]) => i = j

\* C22: in every interleaving of the invocations at their awaits, each
\* invocation answers its request, and hands sendTelegramMessage the message,
\* as fetch does for that request alone; what it returned is not changed
\* afterwards, and no step of an invocation writes what another invocation reads.
C22_NoInterference == [][SameAsAlone /\ Kept /\ OwnOnly]_vars

\* A signed delivery was answered 202 and its Telegram call is still awaited
\* while the delivery of another event, arrived in between, stands at the
\* await of its digest.
C22_Witness ==
    /\ SecretConfigured(env)
    /\ calls[1].pc = "done" /\ calls[1].resp = 202 /\ calls[1].sent # ""
    /\ calls[1].tg = "awaiting"
    /\ calls[2].pc = "sign" /\ calls[2].req.body # calls[1].req.body

====
